---- MODULE Spec2Model ----
(***************************************************************************)
(* Model of buffer-variables: schema inference, the compiled               *)
(* encode/decode/set functions, the View wrapper, diff/applyPatch and the  *)
(* ViewSync handle, over a byte-exact SharedArrayBuffer.                   *)
(*                                                                         *)
(* A SharedArrayBuffer is a sequence of bytes; byte offset k of the code   *)
(* is element k+1 of the sequence.  A path or an object key is the         *)
(* sequence of its tokens: names, digits and the punctuation "." "[" "]",  *)
(* so "user.name" is <<"user", ".", "name">> and "arr[1]" is               *)
(* <<"arr", "[", "1", "]">>; the empty path '' is <<>>.                    *)
(***************************************************************************)
EXTENDS Integers, Sequences, FiniteSets, TLC

\* ------------------------------------------------------------------------
\* Bounds of the model
\* ------------------------------------------------------------------------

\* Number of operations performed on one view in a run.
MaxSteps == 3

\* Extra bytes a caller may allocate beyond schema.byteSize (0 or Slack).
Slack == 8

\* ------------------------------------------------------------------------
\* JavaScript values
\* ------------------------------------------------------------------------

\* Every value has the same five fields: t the kind, n a number (the value of
\* a Number, 0/1 of a Boolean, the length of an Array or typed array), s a
\* sequence of code points or bytes, keys/vals the own properties in order.
JsVal(t, n, s, keys, vals) == [t |-> t, n |-> n, s |-> s, keys |-> keys, vals |-> vals]

JsUndefined == JsVal("Undefined", 0, <<>>, <<>>, <<>>)

JsNull == JsVal("Null", 0, <<>>, <<>>, <<>>)

\* A Number that is a non-negative integer below 2^20.
JsNumber(n) == JsVal("Number", n, <<>>, <<>>, <<>>)

JsNaN == JsVal("NaN", 0, <<>>, <<>>, <<>>)

\* Any other double, kept as its eight little-endian bytes.
JsRawNumber(bytes) == JsVal("Number", 0, bytes, <<>>, <<>>)

JsString(cs) == JsVal("String", 0, cs, <<>>, <<>>)

JsBoolean(b) == JsVal("Boolean", IF b THEN 1 ELSE 0, <<>>, <<>>, <<>>)

JsObject(keys, vals) == JsVal("Object", 0, <<>>, keys, vals)

\* A dense array: own keys "0", "1", ... and length n.
JsArray(items) ==
  JsVal("Array", Len(items), <<>>, [i \in 1..Len(items) |-> <<ToString(i - 1)>>], items)

\* new Array(length): length set, no own properties.
JsNewArray(length) == JsVal("Array", length, <<>>, <<>>, <<>>)

JsTypedArray(type, elems) == JsVal(type, Len(elems), elems, <<>>, <<>>)

TypedArrayTypes == {"Uint8Array", "Uint16Array"}

IsObjectLike(v) == v.t \in {"Object", "Array"} \cup TypedArrayTypes

HasKey(v, key) == \E i \in 1..Len(v.keys) : v.keys[i] = key

\* v[key] and v?.[key]
JsGet(v, key) ==
  IF v.t \in {"Object", "Array"} /\ HasKey(v, key)
  THEN v.vals[CHOOSE i \in 1..Len(v.keys) : v.keys[i] = key]
  ELSE JsUndefined

\* v[key] = x on an object or array (an existing key keeps its position).
JsPut(v, key, x) ==
  IF HasKey(v, key)
  THEN [v EXCEPT !.vals = [i \in 1..Len(v.vals) |-> IF v.keys[i] = key THEN x ELSE v.vals[i]]]
  ELSE [v EXCEPT !.keys = Append(v.keys, key), !.vals = Append(v.vals, x)]

\* a === b.  Objects, arrays and typed arrays are compared by identity; the
\* values compared in this program never share an object, so they differ.
StrictEquals(a, b) ==
  /\ ~IsObjectLike(a)
  /\ ~IsObjectLike(b)
  /\ a.t # "NaN"
  /\ a = b

Max(a, b) == IF a >= b THEN a ELSE b

\* ------------------------------------------------------------------------
\* Text and number conversions
\* ------------------------------------------------------------------------

\* UTF-8 of one code point (ASCII, or U+FFFD as EF BF BD).
Utf8Of(c) == IF c < 128 THEN <<c>> ELSE <<239, 191, 189>>

RECURSIVE TextEncode(_)
\* new TextEncoder().encode(str) for a sequence of code points
TextEncode(cs) == IF cs = <<>> THEN <<>> ELSE Utf8Of(Head(cs)) \o TextEncode(Tail(cs))

\* new TextDecoder().decode(bytes): ASCII bytes decode to themselves, any
\* other byte to U+FFFD.
TextDecode(bytes) ==
  [i \in 1..Len(bytes) |-> IF bytes[i] < 128 THEN bytes[i] ELSE 65533]

RECURSIVE DecimalDigits(_)
DecimalDigits(n) ==
  IF n < 10 THEN <<48 + n>> ELSE DecimalDigits(n \div 10) \o <<48 + (n % 10)>>

\* "[object Object]"
ObjectObjectText == <<91, 111, 98, 106, 101, 99, 116, 32, 79, 98, 106, 101, 99, 116, 93>>

RECURSIVE JsToText(_)
RECURSIVE JoinItems(_, _)
\* String(v), as TextEncoder.encode applies it to a non-string argument
\* (undefined takes the parameter's default, the empty string).
JsToText(v) ==
  CASE v.t = "String" -> v.s
    [] v.t = "Undefined" -> <<>>
    [] v.t = "Null" -> <<110, 117, 108, 108>>
    [] v.t = "NaN" -> <<78, 97, 78>>
    [] v.t = "Number" -> IF v.s = <<>> THEN DecimalDigits(v.n) ELSE <<63>>
    [] v.t = "Boolean" -> IF v.n = 1 THEN <<116, 114, 117, 101>> ELSE <<102, 97, 108, 115, 101>>
    [] v.t = "Array" -> JoinItems(v, 0)
    [] v.t \in TypedArrayTypes -> JoinItems(JsArray([i \in 1..Len(v.s) |-> JsNumber(v.s[i])]), 0)
    [] OTHER -> ObjectObjectText

JoinItems(v, i) ==
  IF i >= v.n THEN <<>>
  ELSE LET x == JsGet(v, <<ToString(i)>>)
           txt == IF x.t \in {"Undefined", "Null"} THEN <<>> ELSE JsToText(x)
       IN (IF i = 0 THEN <<>> ELSE <<44>>) \o txt \o JoinItems(v, i + 1)

\* ToNumber(v), as DataView.setFloat64 applies it to its argument.
JsToNumber(v) ==
  CASE v.t \in {"Number", "NaN"} -> v
    [] v.t = "Null" -> JsNumber(0)
    [] v.t = "Boolean" -> JsNumber(v.n)
    [] v.t = "String" -> IF v.s = <<>> THEN JsNumber(0) ELSE JsNaN
    [] v.t = "Array" ->
         IF v.n = 0 THEN JsNumber(0)
         ELSE IF v.n = 1 /\ JsGet(v, <<"0">>).t \in {"Number", "NaN"} THEN JsGet(v, <<"0">>)
         ELSE JsNaN
    [] OTHER -> JsNaN

\* Truthiness, as in `v ? 1 : 0`.
JsTruthy(v) ==
  CASE v.t \in {"Undefined", "Null", "NaN"} -> FALSE
    [] v.t = "Boolean" -> v.n = 1
    [] v.t = "Number" -> v.s # <<>> \/ v.n # 0
    [] v.t = "String" -> v.s # <<>>
    [] OTHER -> TRUE

RECURSIVE Pow2(_)
Pow2(k) == IF k = 0 THEN 1 ELSE 2 * Pow2(k - 1)

RECURSIVE Log2Floor(_)
Log2Floor(n) == IF n < 2 THEN 0 ELSE 1 + Log2Floor(n \div 2)

\* IEEE-754 binary64 of a Number, little-endian.  For an integer 0 < n < 2^20
\* the biased exponent is 1023 + e and the top 20 mantissa bits are
\* (n - 2^e) * 2^(20-e); the low 32 bits are zero.
Float64Bytes(v) ==
  CASE v.t = "NaN" -> <<0, 0, 0, 0, 0, 0, 248, 127>>
    [] v.s # <<>> -> v.s
    [] v.n = 0 -> <<0, 0, 0, 0, 0, 0, 0, 0>>
    [] OTHER ->
         LET e == Log2Floor(v.n)
             ex == 1023 + e
             m20 == (v.n - Pow2(e)) * Pow2(20 - e)
         IN <<0, 0, 0, 0, m20 % 256, (m20 \div 256) % 256,
              (ex % 16) * 16 + m20 \div 65536, ex \div 16>>

\* The Number stored in eight little-endian bytes.
Float64Value(b) ==
  LET ex == (b[8] % 128) * 16 + b[7] \div 16
      m20 == (b[7] % 16) * 65536 + b[6] * 256 + b[5]
      low0 == b[1] = 0 /\ b[2] = 0 /\ b[3] = 0 /\ b[4] = 0
      e == ex - 1023
  IN CASE ex = 2047 /\ ~(low0 /\ m20 = 0) -> JsNaN
       [] low0 /\ m20 = 0 /\ ex = 0 /\ b[8] = 0 -> JsNumber(0)
       [] low0 /\ b[8] < 128 /\ e >= 0 /\ e < 20 /\ m20 % Pow2(20 - e) = 0 ->
            JsNumber(Pow2(e) + m20 \div Pow2(20 - e))
       [] OTHER -> JsRawNumber(b)

\* ------------------------------------------------------------------------
\* DataView and typed-array access to a buffer
\* ------------------------------------------------------------------------

byteLength(sab) == Len(sab)

ByteAt(sab, off) == sab[off + 1]

Slice(sab, off, n) == [i \in 1..n |-> sab[off + i]]

WriteBytes(sab, off, bytes) ==
  [i \in 1..Len(sab) |-> IF i > off /\ i <= off + Len(bytes) THEN bytes[i - off] ELSE sab[i]]

\* A DataView or typed-array access of n bytes at off is in range.
InRange(sab, off, n) == off >= 0 /\ off + n <= Len(sab)

\* Little-endian bytes of a length below 2^31.
Uint32Bytes(n) == <<n % 256, (n \div 256) % 256, (n \div 65536) % 256, n \div 16777216>>

\* dv.getUint32(off, true), for an access in range.  A stored length of 2^31
\* or more reads as 2^31 - 1, which is larger than every buffer too.
getUint32(sab, off) ==
  IF ByteAt(sab, off + 3) >= 128 THEN 2147483647
  ELSE ByteAt(sab, off) + 256 * ByteAt(sab, off + 1) + 65536 * ByteAt(sab, off + 2)
       + 16777216 * ByteAt(sab, off + 3)

\* Int8Array: 1, ..., BigUint64Array: 8
getTypedArrayByteSize(type) ==
  CASE type = "Uint8Array" -> 1
    [] type = "Uint16Array" -> 2

\* Little-endian bytes of the elements of a typed array.
RECURSIVE ElementBytes(_, _)
ElementBytes(type, elems) ==
  IF elems = <<>> THEN <<>>
  ELSE (IF getTypedArrayByteSize(type) = 1 THEN <<Head(elems) % 256>>
        ELSE <<Head(elems) % 256, (Head(elems) \div 256) % 256>>)
       \o ElementBytes(type, Tail(elems))

\* The elements of new TypedArrayClass(buffer, off, length), for a view in range.
ElementsAt(sab, type, off, length) ==
  LET w == getTypedArrayByteSize(type)
  IN [i \in 1..length |->
        IF w = 1 THEN ByteAt(sab, off + i - 1)
        ELSE ByteAt(sab, off + 2 * (i - 1)) + 256 * ByteAt(sab, off + 2 * (i - 1) + 1)]

\* new TypedArrayClass(buffer, off, length) does not throw a RangeError: the
\* offset is a multiple of the element size and the view fits the buffer.
TypedViewOk(sab, type, off, length) ==
  /\ off % getTypedArrayByteSize(type) = 0
  /\ length <= Len(sab)
  /\ InRange(sab, off, length * getTypedArrayByteSize(type))

\* The version counter, bytes 0-3, as Atomics.load reads it.
Version(sab) == Slice(sab, 0, 4)

\* An add that increments the low byte only, with no carry into bytes 1-3.
AtomicsAdd_NoCarry(sab) == WriteBytes(sab, 0, <<(ByteAt(sab, 0) + 1) % 256>>)

\* Atomics.add(new Int32Array(sab, 0, 1), 0, 1): a 32-bit add that wraps.
AtomicsAdd(sab) ==
  LET b == Version(sab)
      c1 == IF b[1] = 255 THEN 1 ELSE 0
      c2 == IF c1 = 1 /\ b[2] = 255 THEN 1 ELSE 0
      c3 == IF c2 = 1 /\ b[3] = 255 THEN 1 ELSE 0
  IN WriteBytes(sab, 0, <<(b[1] + 1) % 256, (b[2] + c1) % 256, (b[3] + c2) % 256,
                           (b[4] + c3) % 256>>)

\* ------------------------------------------------------------------------
\* Schema inference
\* ------------------------------------------------------------------------

Descriptor(type, dataType, byteOffset, byteSize, length, ckeys, cvals) ==
  [type |-> type, dataType |-> dataType, byteOffset |-> byteOffset, byteSize |-> byteSize,
   length |-> length, ckeys |-> ckeys, cvals |-> cvals]

\* descriptor.children[key], or NoDescriptor for undefined
NoDescriptor == Descriptor("None", "", 0, 0, 0, <<>>, <<>>)

ChildOf(desc, key) ==
  IF \E i \in 1..Len(desc.ckeys) : desc.ckeys[i] = key
  THEN desc.cvals[CHOOSE i \in 1..Len(desc.ckeys) : desc.ckeys[i] = key]
  ELSE NoDescriptor

\* One entry of encodingTemplate.  kind selects the setter/getter pair the
\* entry was created with; `type` holds the path, as in the code.
TemplateEntry(offset, path, size, kind, dataType) ==
  [offset |-> offset, type |-> path, size |-> size, kind |-> kind, dataType |-> dataType]

\* Map.set(path, entry) on a map kept as its entries in insertion order.
MapSet(map, path, entry) ==
  IF \E i \in 1..Len(map) : map[i].path = path
  THEN [i \in 1..Len(map) |-> IF map[i].path = path THEN [path |-> path, e |-> entry] ELSE map[i]]
  ELSE Append(map, [path |-> path, e |-> entry])

MapHas(map, path) == \E i \in 1..Len(map) : map[i].path = path

MapGet(map, path) == map[CHOOSE i \in 1..Len(map) : map[i].path = path].e

\* `${path}.${key}`, or key for the empty path
ChildPath(path, key) == IF path = <<>> THEN <<key>> ELSE path \o <<".", key>>

\* `${path}[${i}]`
IndexPath(path, i) == path \o <<"[", ToString(i), "]">>

\* A leaf of inferDescriptor (Number, String, Boolean): index and template
\* entry at the cursor, then the cursor advances by size.
InferLeaf(st, path, dataType, size) ==
  [d |-> Descriptor("Primitive", dataType, st.currentOffset, size, 0, <<>>, <<>>),
   st |-> [st EXCEPT
     !.flatIndex = MapSet(@, path, [offset |-> st.currentOffset, type |-> dataType]),
     !.encodingTemplate = Append(@, TemplateEntry(st.currentOffset, path, size, dataType, dataType)),
     !.currentOffset = @ + size]]

RECURSIVE inferDescriptor(_, _, _)
RECURSIVE InferItems(_, _, _, _, _)
RECURSIVE InferEntries(_, _, _, _, _)

\* inferSchema.inferDescriptor(value, path), with the enclosing function's
\* currentOffset, flatIndex, encodingTemplate and typedArrayViews passed as st.
inferDescriptor(value, path, st) ==
  CASE value.t = "Null" ->
         [d |-> Descriptor("Primitive", "Null", st.currentOffset, 0, 0, <<>>, <<>>), st |-> st]
    [] value.t = "Undefined" ->
         [d |-> Descriptor("Primitive", "Undefined", st.currentOffset, 0, 0, <<>>, <<>>), st |-> st]
    [] value.t \in {"Number", "NaN"} -> InferLeaf(st, path, "Number", 8)
    [] value.t = "String" -> InferLeaf(st, path, "String", 4 + Len(TextEncode(value.s)))
    [] value.t = "Boolean" -> InferLeaf(st, path, "Boolean", 1)
    [] value.t \in TypedArrayTypes ->
         LET size == 4 + value.n * getTypedArrayByteSize(value.t)
         IN [d |-> Descriptor("TypedArray", value.t, st.currentOffset, size, value.n, <<>>, <<>>),
             st |-> [st EXCEPT
               !.flatIndex = MapSet(@, path, [offset |-> st.currentOffset, type |-> value.t]),
               !.encodingTemplate =
                  Append(@, TemplateEntry(st.currentOffset, path, size, "TypedArray", value.t)),
               !.typedArrayViews =
                  MapSet(@, path, [type |-> value.t, offset |-> st.currentOffset, length |-> value.n]),
               !.currentOffset = @ + size]]
    [] value.t = "Array" ->
         LET offset == st.currentOffset
             st1 == [st EXCEPT !.currentOffset = @ + 4]
             first == IF value.n = 0
                      THEN [d |-> Descriptor("Primitive", "Null", 0, 0, 0, <<>>, <<>>), st |-> st1]
                      ELSE inferDescriptor(value.vals[1], path \o <<"[", "]">>, st1)
             rest == InferItems(value, path, 1, first.d.byteSize, first.st)
             child == [first.d EXCEPT !.byteSize = rest.size]
             size == 4 + value.n * child.byteSize
         IN [d |-> Descriptor("Array", "", offset, size, value.n, <<"[]">>, <<child>>),
             st |-> [rest.st EXCEPT
               !.flatIndex = MapSet(@, path, [offset |-> offset, type |-> "Array"]),
               !.encodingTemplate = Append(@, TemplateEntry(offset, path, size, "Array", ""))]]
    [] value.t = "Object" ->
         LET offset == st.currentOffset
             r == InferEntries(value, path, 1, offset, st)
         IN [d |-> Descriptor("Object", "", offset, r.size, 0, r.ckeys, r.cvals),
             st |-> [r.st EXCEPT
               !.flatIndex = MapSet(@, path, [offset |-> offset, type |-> "Object"]),
               !.encodingTemplate = Append(@, TemplateEntry(offset, path, r.size, "Object", ""))]]

\* for (let i = 1; i < length; i++): each further item is inferred at its own
\* path and the first item's byteSize becomes the maximum.
InferItems(value, path, i, size, st) ==
  IF i >= value.n THEN [size |-> size, st |-> st]
  ELSE LET item == inferDescriptor(value.vals[i + 1], IndexPath(path, i), st)
       IN InferItems(value, path, i + 1, Max(size, item.d.byteSize), item.st)

\* for (const [key, val] of Object.entries(value)), from the k-th entry on
InferEntries(value, path, k, offset, st) ==
  IF k > Len(value.keys) THEN [size |-> 0, ckeys |-> <<>>, cvals |-> <<>>, st |-> st]
  ELSE LET key == value.keys[k][1]
           c == inferDescriptor(value.vals[k], ChildPath(path, key), st)
           r == InferEntries(value, path, k + 1, offset, c.st)
       IN [size |-> Max(c.d.byteOffset + c.d.byteSize - offset, r.size),
           ckeys |-> <<key>> \o r.ckeys, cvals |-> <<c.d>> \o r.cvals, st |-> r.st]

\* inferSchema(data).  currentOffset is the closed-over cursor as inference
\* leaves it: the variable the leaf setters and getters read when they run.
inferSchema(data) ==
  LET r == inferDescriptor(data, <<>>,
             [currentOffset |-> 8, flatIndex |-> <<>>, encodingTemplate |-> <<>>,
              typedArrayViews |-> <<>>])
  IN [descriptorTree |-> r.d,
      byteSize |-> Max(r.st.currentOffset, 8),
      flatIndex |-> r.st.flatIndex,
      encodingTemplate |-> r.st.encodingTemplate,
      typedArrayViews |-> r.st.typedArrayViews,
      currentOffset |-> r.st.currentOffset]


\* ------------------------------------------------------------------------
\* Template setters (the closures created by inferDescriptor)
\* ------------------------------------------------------------------------

\* The outcome of an operation: err is "" when it returned normally, else
\* the kind of the error thrown; sab is the buffer it leaves; ret is the
\* value returned and patches the patch list returned (diff).
Outcome(err, sab, ret) == [err |-> err, sab |-> sab, ret |-> ret, patches |-> <<>>]

\* v.length: throws on undefined and null, is undefined on values without
\* the property.
LengthOf(v) ==
  CASE v.t \in {"Undefined", "Null"} -> [throws |-> TRUE, defined |-> FALSE, n |-> 0]
    [] v.t = "Array" \/ v.t \in TypedArrayTypes -> [throws |-> FALSE, defined |-> TRUE, n |-> v.n]
    [] v.t = "String" -> [throws |-> FALSE, defined |-> TRUE, n |-> Len(v.s)]
    [] OTHER -> [throws |-> FALSE, defined |-> FALSE, n |-> 0]

\* The numbers typedArray.set(v) stores for an array-like v.
ElementsOf(v) ==
  CASE v.t \in TypedArrayTypes -> v.s
    [] v.t = "Array" ->
         [i \in 1..v.n |->
            LET x == JsToNumber(JsGet(v, <<ToString(i - 1)>>))
            IN IF x.t = "Number" /\ x.s = <<>> THEN x.n ELSE 0]
    [] v.t = "String" -> [i \in 1..Len(v.s) |-> IF v.s[i] >= 48 /\ v.s[i] <= 57 THEN v.s[i] - 48 ELSE 0]
    [] OTHER -> <<>>

\* entry.setter(dv, v).  at is the offset the closure reads when it runs.
SetterAt(entry, at, sab, v) ==
  CASE entry.kind = "Number" ->
         IF ~InRange(sab, at, 8) THEN Outcome("RangeError", sab, JsUndefined)
         ELSE Outcome("", WriteBytes(sab, at, Float64Bytes(JsToNumber(v))), JsUndefined)
    [] entry.kind = "String" ->
         LET b == TextEncode(JsToText(v))
         IN IF ~InRange(sab, at, 4) THEN Outcome("RangeError", sab, JsUndefined)
            ELSE LET s1 == WriteBytes(sab, at, Uint32Bytes(Len(b)))
                 IN IF ~InRange(sab, at + 4, Len(b)) THEN Outcome("RangeError", s1, JsUndefined)
                    ELSE Outcome("", WriteBytes(s1, at + 4, b), JsUndefined)
    [] entry.kind = "Boolean" ->
         IF ~InRange(sab, at, 1) THEN Outcome("RangeError", sab, JsUndefined)
         ELSE Outcome("", WriteBytes(sab, at, <<IF JsTruthy(v) THEN 1 ELSE 0>>), JsUndefined)
    [] entry.kind = "TypedArray" ->
         LET len == LengthOf(v)
             w == getTypedArrayByteSize(entry.dataType)
         IN IF len.throws THEN Outcome("TypeError", sab, JsUndefined)
            ELSE IF ~InRange(sab, at, 4) THEN Outcome("RangeError", sab, JsUndefined)
            ELSE LET s1 == WriteBytes(sab, at, Uint32Bytes(len.n))
                     viewOk == IF len.defined THEN TypedViewOk(sab, entry.dataType, at + 4, len.n)
                               ELSE /\ (at + 4) % w = 0
                                    /\ at + 4 <= Len(sab)
                                    /\ (Len(sab) - (at + 4)) % w = 0
                 IN IF ~viewOk THEN Outcome("RangeError", s1, JsUndefined)
                    ELSE Outcome("", WriteBytes(s1, at + 4, ElementBytes(entry.dataType, ElementsOf(v))),
                                 JsUndefined)
    [] entry.kind = "Array" ->
         LET len == LengthOf(v)
         IN IF len.throws THEN Outcome("TypeError", sab, JsUndefined)
            ELSE IF ~InRange(sab, at, 4) THEN Outcome("RangeError", sab, JsUndefined)
            ELSE Outcome("", WriteBytes(sab, at, Uint32Bytes(len.n)), JsUndefined)
    [] OTHER -> Outcome("", sab, JsUndefined)

\* The offset a template's closures use.  The Number, String, Boolean and
\* typed-array closures read the variable currentOffset of inferSchema, which
\* holds its final value by the time they run; the Array closures read the
\* constant `offset` of their own call.
ClosureOffset(schema, entry) ==
  IF entry.kind = "Array" THEN entry.offset ELSE schema.currentOffset

Setter(schema, entry, sab, v) == SetterAt(entry, ClosureOffset(schema, entry), sab, v)

\* ------------------------------------------------------------------------
\* compileFunctions: encode, decode, set
\* ------------------------------------------------------------------------

IsPunct(tok) == tok \in {".", "[", "]"}

\* path.split(/[\.\[\]]/).filter(p => p)
PathParts(path) == SelectSeq(path, LAMBDA tok : ~IsPunct(tok))

RECURSIVE LastDot(_, _)
\* Index of the last "." token at or before position i, or 0.
LastDot(path, i) == IF i = 0 THEN 0 ELSE IF path[i] = "." THEN i ELSE LastDot(path, i - 1)

\* path.split('.').pop()
LastSegment(path) == SubSeq(path, LastDot(path, Len(path)) + 1, Len(path))

RECURSIVE WalkParts(_, _, _)
WalkParts(current, parts, k) ==
  IF k > Len(parts) THEN current
  ELSE LET next == JsGet(current, <<parts[k]>>)
       IN IF next.t = "Undefined" THEN JsUndefined ELSE WalkParts(next, parts, k + 1)

getValueByPath(data, path) == WalkParts(data, PathParts(path), 1)

\* An optional Set<string>: dirtyFields.
NoDirtyFields == [defined |-> FALSE, paths |-> {}]

DirtyFields(paths) == [defined |-> TRUE, paths |-> paths]

RECURSIVE EncodeFrom(_, _, _, _, _)
\* The loop of compiled.encode from the k-th template entry on.  A Set is
\* truthy also when empty, so with dirtyFields given an entry is skipped
\* unless its path is in the set.
EncodeFrom(schema, data, sab, dirtyFields, k) ==
  IF k > Len(schema.encodingTemplate) THEN Outcome("", sab, JsUndefined)
  ELSE LET entry == schema.encodingTemplate[k]
       IN IF dirtyFields.defined /\ entry.type \notin dirtyFields.paths
          THEN EncodeFrom(schema, data, sab, dirtyFields, k + 1)
          ELSE LET value == getValueByPath(data, entry.type)
               IN IF value.t = "Undefined" THEN Outcome("MissingValue", sab, JsUndefined)
                  ELSE LET w == Setter(schema, entry, sab, value)
                       IN IF w.err # "" THEN w
                          ELSE EncodeFrom(schema, data, w.sab, dirtyFields, k + 1)

compiledEncode(schema, data, sab, dirtyFields) == EncodeFrom(schema, data, sab, dirtyFields, 1)

\* encodingTemplate.find(t => t.type === type): the index, or 0
FindTemplate(schema, type) ==
  IF \E k \in 1..Len(schema.encodingTemplate) : schema.encodingTemplate[k].type = type
  THEN CHOOSE k \in 1..Len(schema.encodingTemplate) :
         /\ schema.encodingTemplate[k].type = type
         /\ \A j \in 1..(k - 1) : schema.encodingTemplate[j].type # type
  ELSE 0

\* The key compiled.set looks its template up with: the `type` of the path's
\* flatIndex entry (a data type name such as 'Number'), compared with the
\* templates' `type` (a path).
TemplateKey(path, entry) == <<entry.type>>

\* compiled.set(path, value, dv)
compiledSet(schema, path, value, sab) ==
  IF ~MapHas(schema.flatIndex, path) THEN Outcome("InvalidPath", sab, JsUndefined)
  ELSE LET entry == MapGet(schema.flatIndex, path)
           k == FindTemplate(schema, TemplateKey(path, entry))
       IN IF k = 0 THEN Outcome("NoTemplate", sab, JsUndefined)
          ELSE Setter(schema, schema.encodingTemplate[k], sab, value)

\* readPrimitive(dv, offset, dataType)
readPrimitive(sab, offset, dataType) ==
  IF offset < 0 \/ offset >= Len(sab) THEN Outcome("InvalidOffset", sab, JsUndefined)
  ELSE CASE dataType = "Number" ->
              IF ~InRange(sab, offset, 8) THEN Outcome("RangeError", sab, JsUndefined)
              ELSE Outcome("", sab, Float64Value(Slice(sab, offset, 8)))
         [] dataType = "String" ->
              IF ~InRange(sab, offset, 4) THEN Outcome("RangeError", sab, JsUndefined)
              ELSE LET length == getUint32(sab, offset)
                   IN IF length > Len(sab) - offset - 4
                      THEN Outcome("LengthExceedsBuffer", sab, JsUndefined)
                      ELSE Outcome("", sab, JsString(TextDecode(Slice(sab, offset + 4, length))))
         [] dataType = "Boolean" -> Outcome("", sab, JsBoolean(ByteAt(sab, offset) # 0))
         [] dataType = "Null" -> Outcome("", sab, JsNull)
         [] dataType = "Undefined" -> Outcome("", sab, JsUndefined)
         [] OTHER -> Outcome("Unsupported", sab, JsUndefined)

\* length * size > room, without leaving the 32-bit integers
Exceeds(length, size, room) == size > 0 /\ (room < 0 \/ length > room \div size)

RECURSIVE traverseDescriptor(_, _, _, _, _)
RECURSIVE TraverseChildren(_, _, _, _, _, _)
RECURSIVE TraverseItems(_, _, _, _, _, _, _)

\* traverseDescriptor(descriptor, dv, offset, result, path): ret is the
\* object `result` as the call leaves it.
traverseDescriptor(descriptor, sab, offset, result, path) ==
  IF offset < 0 \/ offset >= Len(sab) THEN Outcome("InvalidOffset", sab, result)
  ELSE CASE descriptor.type = "Primitive" ->
              LET r == readPrimitive(sab, offset, descriptor.dataType)
              IN IF r.err # "" THEN Outcome(r.err, sab, result)
                 ELSE Outcome("", sab, JsPut(result, LastSegment(path), r.ret))
         [] descriptor.type = "Object" ->
              TraverseChildren(descriptor, sab, offset, result, path, 1)
         [] descriptor.type = "Array" ->
              IF ~InRange(sab, offset, 4) THEN Outcome("RangeError", sab, result)
              ELSE LET length == getUint32(sab, offset)
                       child == ChildOf(descriptor, "[]")
                   IN IF Exceeds(length, child.byteSize, Len(sab) - offset - 4)
                      THEN Outcome("LengthExceedsBuffer", sab, result)
                      ELSE TraverseItems(child, sab, offset, JsPut(result, LastSegment(path), JsNewArray(length)),
                                         path, 0, length)
         [] descriptor.type = "TypedArray" ->
              IF ~InRange(sab, offset, 4) THEN Outcome("RangeError", sab, result)
              ELSE LET length == getUint32(sab, offset)
                   IN IF Exceeds(length, getTypedArrayByteSize(descriptor.dataType), Len(sab) - offset - 4)
                      THEN Outcome("LengthExceedsBuffer", sab, result)
                      ELSE IF ~TypedViewOk(sab, descriptor.dataType, offset + 4, length)
                      THEN Outcome("RangeError", sab, result)
                      ELSE Outcome("", sab, JsPut(result, LastSegment(path),
                             JsTypedArray(descriptor.dataType,
                                          ElementsAt(sab, descriptor.dataType, offset + 4, length))))
         [] OTHER -> Outcome("Unsupported", sab, result)

\* The Object case: result[key] = {} and the child is traversed into it, at
\* offset + child.byteOffset.
TraverseChildren(descriptor, sab, offset, result, path, k) ==
  IF k > Len(descriptor.ckeys) THEN Outcome("", sab, result)
  ELSE LET key == descriptor.ckeys[k]
           child == descriptor.cvals[k]
           r == traverseDescriptor(child, sab, offset + child.byteOffset, JsObject(<<>>, <<>>),
                                   ChildPath(path, key))
       IN IF r.err # "" THEN Outcome(r.err, sab, JsPut(result, <<key>>, r.ret))
          ELSE TraverseChildren(descriptor, sab, offset, JsPut(result, <<key>>, r.ret), path, k + 1)

\* The Array case's loop: item i is traversed into the new array
\* result[path.split('.').pop()], under the path `${path}[${i}]`.
TraverseItems(child, sab, offset, result, path, i, length) ==
  IF i >= length THEN Outcome("", sab, result)
  ELSE LET arr == JsGet(result, LastSegment(path))
           r == traverseDescriptor(child, sab, offset + 4 + i * child.byteSize, arr, IndexPath(path, i))
       IN IF r.err # "" THEN Outcome(r.err, sab, JsPut(result, LastSegment(path), r.ret))
          ELSE TraverseItems(child, sab, offset, JsPut(result, LastSegment(path), r.ret), path, i + 1, length)

\* compiled.decode(dv)
compiledDecode(schema, sab) ==
  LET r == traverseDescriptor(schema.descriptorTree, sab, 0, JsObject(<<>>, <<>>), <<>>)
  IN IF r.err # "" THEN Outcome(r.err, sab, JsUndefined) ELSE r


\* ------------------------------------------------------------------------
\* View
\* ------------------------------------------------------------------------

\* new View(data, options): options.mutable defaults to false; the schema is
\* inferred once, from the sample.
NewView(data, mutable) ==
  LET schema == inferSchema(data)
  IN [options |-> [mutable |-> mutable], schema |-> schema, byteSize |-> schema.byteSize]

RECURSIVE hasUndefined(_)
\* hasUndefined(value): Array.some visits the index properties only.
hasUndefined(value) ==
  CASE value.t = "Undefined" -> TRUE
    [] value.t = "Array" ->
         \E i \in 0..(value.n - 1) :
            /\ HasKey(value, <<ToString(i)>>)
            /\ hasUndefined(JsGet(value, <<ToString(i)>>))
    [] value.t = "Object" -> \E i \in 1..Len(value.vals) : hasUndefined(value.vals[i])
    [] OTHER -> FALSE

\* Array indices the model's paths use: !isNaN(Number(part))
IsNumericPart(part) == part \in {ToString(i) : i \in 0..9}

RECURSIVE DescriptorAt(_, _, _)
\* The loop of View.getDescriptor: NoDescriptor stands for the error thrown.
DescriptorAt(current, parts, k) ==
  IF k > Len(parts) THEN current
  ELSE IF current.type = "Object"
       THEN LET c == ChildOf(current, parts[k])
            IN IF c = NoDescriptor THEN NoDescriptor ELSE DescriptorAt(c, parts, k + 1)
       ELSE IF current.type = "Array" /\ IsNumericPart(parts[k])
       THEN DescriptorAt(ChildOf(current, "[]"), parts, k + 1)
       ELSE NoDescriptor

\* View.getDescriptor(path)
getDescriptor(schema, path) == DescriptorAt(schema.descriptorTree, PathParts(path), 1)

RECURSIVE readValue(_, _, _)
RECURSIVE ReadChildren(_, _, _, _, _)
RECURSIVE ReadItems(_, _, _, _, _, _)

\* View.readValue(dv, descriptor, offset)
readValue(sab, descriptor, offset) ==
  IF offset < 0 \/ offset >= Len(sab) THEN Outcome("InvalidOffset", sab, JsUndefined)
  ELSE CASE descriptor.type = "Primitive" ->
              CASE descriptor.dataType = "Number" ->
                     IF ~InRange(sab, offset, 8) THEN Outcome("RangeError", sab, JsUndefined)
                     ELSE Outcome("", sab, Float64Value(Slice(sab, offset, 8)))
                [] descriptor.dataType = "String" ->
                     IF ~InRange(sab, offset, 4) THEN Outcome("RangeError", sab, JsUndefined)
                     ELSE LET length == getUint32(sab, offset)
                          IN IF length > Len(sab) - offset - 4
                             THEN Outcome("LengthExceedsBuffer", sab, JsUndefined)
                             ELSE Outcome("", sab, JsString(TextDecode(Slice(sab, offset + 4, length))))
                [] descriptor.dataType = "Boolean" -> Outcome("", sab, JsBoolean(ByteAt(sab, offset) # 0))
                [] descriptor.dataType = "Null" -> Outcome("", sab, JsNull)
                [] descriptor.dataType = "Undefined" -> Outcome("", sab, JsUndefined)
                [] OTHER -> Outcome("Unsupported", sab, JsUndefined)
         [] descriptor.type = "Object" ->
              ReadChildren(sab, descriptor, offset, JsObject(<<>>, <<>>), 1)
         [] descriptor.type = "Array" ->
              IF ~InRange(sab, offset, 4) THEN Outcome("RangeError", sab, JsUndefined)
              ELSE LET length == getUint32(sab, offset)
                       child == ChildOf(descriptor, "[]")
                   IN IF Exceeds(length, child.byteSize, Len(sab) - offset - 4)
                      THEN Outcome("LengthExceedsBuffer", sab, JsUndefined)
                      ELSE ReadItems(sab, child, offset, JsNewArray(length), 0, length)
         [] descriptor.type = "TypedArray" ->
              IF ~InRange(sab, offset, 4) THEN Outcome("RangeError", sab, JsUndefined)
              ELSE LET length == getUint32(sab, offset)
                   IN IF Exceeds(length, getTypedArrayByteSize(descriptor.dataType), Len(sab) - offset - 4)
                      THEN Outcome("LengthExceedsBuffer", sab, JsUndefined)
                      ELSE IF ~TypedViewOk(sab, descriptor.dataType, offset + 4, length)
                      THEN Outcome("RangeError", sab, JsUndefined)
                      ELSE Outcome("", sab, JsTypedArray(descriptor.dataType,
                                     ElementsAt(sab, descriptor.dataType, offset + 4, length)))
         [] OTHER -> Outcome("Unsupported", sab, JsUndefined)

ReadChildren(sab, descriptor, offset, result, k) ==
  IF k > Len(descriptor.ckeys) THEN Outcome("", sab, result)
  ELSE LET child == descriptor.cvals[k]
           r == readValue(sab, child, offset + child.byteOffset)
       IN IF r.err # "" THEN r
          ELSE ReadChildren(sab, descriptor, offset, JsPut(result, <<descriptor.ckeys[k]>>, r.ret), k + 1)

ReadItems(sab, child, offset, result, i, length) ==
  IF i >= length THEN Outcome("", sab, result)
  ELSE LET r == readValue(sab, child, offset + 4 + i * child.byteSize)
       IN IF r.err # "" THEN r
          ELSE ReadItems(sab, child, offset, JsPut(result, <<ToString(i)>>, r.ret), i + 1, length)

\* The size check every View method, diff, applyPatch and the ViewSync
\* constructor make.
BufferTooSmall(view, sab) == byteLength(sab) < view.schema.byteSize

\* View.prototype.encode(data, sab)
ViewEncode(view, data, sab) ==
  IF BufferTooSmall(view, sab) THEN Outcome("BufferTooSmall", sab, JsUndefined)
  ELSE IF ~view.options.mutable /\ view.schema.byteSize # byteLength(sab)
  THEN Outcome("ImmutableSizeMismatch", sab, JsUndefined)
  ELSE IF hasUndefined(data) THEN Outcome("UndefinedValues", sab, JsUndefined)
  ELSE LET w == compiledEncode(view.schema, data, sab, DirtyFields({}))
       IN IF w.err # "" THEN w ELSE Outcome("", AtomicsAdd(w.sab), JsUndefined)

\* A decode that counts its reads in the version counter.
ViewDecode_CountsReads(view, sab) ==
  IF BufferTooSmall(view, sab) THEN Outcome("BufferTooSmall", sab, JsUndefined)
  ELSE LET r == compiledDecode(view.schema, sab) IN [r EXCEPT !.sab = AtomicsAdd(sab)]

\* View.prototype.decode(sab)
ViewDecode(view, sab) ==
  IF BufferTooSmall(view, sab) THEN Outcome("BufferTooSmall", sab, JsUndefined)
  ELSE compiledDecode(view.schema, sab)

\* View.prototype.decodePartial(path, sab)
ViewDecodePartial(view, path, sab) ==
  IF BufferTooSmall(view, sab) THEN Outcome("BufferTooSmall", sab, JsUndefined)
  ELSE IF ~MapHas(view.schema.flatIndex, path) THEN Outcome("InvalidPath", sab, JsUndefined)
  ELSE LET descriptor == getDescriptor(view.schema, path)
       IN IF descriptor = NoDescriptor THEN Outcome("InvalidPathSegment", sab, JsUndefined)
          ELSE readValue(sab, descriptor, MapGet(view.schema.flatIndex, path).offset)

\* View.prototype.getTypedArray(path, sab)
ViewGetTypedArray(view, path, sab) ==
  IF BufferTooSmall(view, sab) THEN Outcome("BufferTooSmall", sab, JsUndefined)
  ELSE IF ~MapHas(view.schema.typedArrayViews, path) THEN Outcome("NoTypedArray", sab, JsUndefined)
  ELSE LET v == MapGet(view.schema.typedArrayViews, path)
       IN IF ~TypedViewOk(sab, v.type, v.offset + 4, v.length)
          THEN Outcome("RangeError", sab, JsUndefined)
          ELSE Outcome("", sab, JsTypedArray(v.type, ElementsAt(sab, v.type, v.offset + 4, v.length)))

\* View.prototype.set(path, value, sab)
ViewSet(view, path, value, sab) ==
  IF ~view.options.mutable THEN Outcome("Immutable", sab, JsUndefined)
  ELSE IF BufferTooSmall(view, sab) THEN Outcome("BufferTooSmall", sab, JsUndefined)
  ELSE LET w == compiledSet(view.schema, path, value, sab)
       IN IF w.err # "" THEN w ELSE Outcome("", AtomicsAdd(w.sab), JsUndefined)

RECURSIVE BulkSetFrom(_, _, _, _)
\* for (const [path, value] of Object.entries(pathsAndValues))
BulkSetFrom(schema, entries, sab, k) ==
  IF k > Len(entries) THEN Outcome("", sab, JsUndefined)
  ELSE LET w == compiledSet(schema, entries[k].path, entries[k].value, sab)
       IN IF w.err # "" THEN w ELSE BulkSetFrom(schema, entries, w.sab, k + 1)

\* View.prototype.bulkSet(pathsAndValues, sab); entries are the object's
\* [path, value] pairs in order.
ViewBulkSet(view, entries, sab) ==
  IF ~view.options.mutable THEN Outcome("Immutable", sab, JsUndefined)
  ELSE IF BufferTooSmall(view, sab) THEN Outcome("BufferTooSmall", sab, JsUndefined)
  ELSE LET w == BulkSetFrom(view.schema, entries, sab, 1)
       IN IF w.err # "" THEN w ELSE Outcome("", AtomicsAdd(w.sab), JsUndefined)

\* The own enumerable properties { ...v } copies.
SpreadOf(v) ==
  CASE v.t \in {"Object", "Array"} -> JsObject(v.keys, v.vals)
    [] v.t = "String" ->
         JsObject([i \in 1..Len(v.s) |-> <<ToString(i - 1)>>], [i \in 1..Len(v.s) |-> JsString(<<v.s[i]>>)])
    [] v.t \in TypedArrayTypes ->
         JsObject([i \in 1..Len(v.s) |-> <<ToString(i - 1)>>], [i \in 1..Len(v.s) |-> JsNumber(v.s[i])])
    [] OTHER -> JsObject(<<>>, <<>>)

RECURSIVE AssignFrom(_, _, _)
\* Object.assign(target, source), from the k-th property of source on
AssignFrom(target, source, k) ==
  IF k > Len(source.keys) THEN target
  ELSE AssignFrom(JsPut(target, source.keys[k], source.vals[k]), source, k + 1)

\* View.prototype.patch(path, partial, sab)
ViewPatch(view, path, partial, sab) ==
  IF ~view.options.mutable THEN Outcome("Immutable", sab, JsUndefined)
  ELSE IF BufferTooSmall(view, sab) THEN Outcome("BufferTooSmall", sab, JsUndefined)
  ELSE LET current == ViewDecodePartial(view, path, sab)
       IN IF current.err # "" THEN current
          ELSE ViewSet(view, path, AssignFrom(SpreadOf(current.ret), SpreadOf(partial), 1), sab)

\* ------------------------------------------------------------------------
\* diff and applyPatch (schema-diff-patch)
\* ------------------------------------------------------------------------

Patch(op, path, value) == [op |-> op, path |-> path, value |-> value]

\* Object.keys(v || {})
KeysOf(v) == SpreadOf(IF JsTruthy(v) THEN v ELSE JsObject(<<>>, <<>>)).keys

\* [...new Set([...a, ...b])]: a, then the keys of b not in a
RECURSIVE UnionKeys(_, _)
UnionKeys(a, b) ==
  IF b = <<>> THEN a
  ELSE UnionKeys(IF \E i \in 1..Len(a) : a[i] = Head(b) THEN a ELSE Append(a, Head(b)), Tail(b))

\* desc.children?.[key] for a property key
ChildForKey(desc, key) == IF Len(key) = 1 THEN ChildOf(desc, key[1]) ELSE NoDescriptor

RECURSIVE compare(_, _, _, _)
RECURSIVE CompareKeys(_, _, _, _, _, _)
RECURSIVE CompareItems(_, _, _, _, _, _)

\* diff.compare(desc, path, oldValue, newValue): the patches it pushes
compare(desc, path, oldValue, newValue) ==
  IF StrictEquals(oldValue, newValue) THEN <<>>
  ELSE CASE desc.type \in {"Primitive", "TypedArray"} -> <<Patch("replace", path, newValue)>>
         [] desc.type = "Object" ->
              CompareKeys(desc, path, oldValue, newValue, UnionKeys(KeysOf(oldValue), KeysOf(newValue)), 1)
         [] desc.type = "Array" ->
              LET oldArray == IF JsTruthy(oldValue) THEN oldValue ELSE JsArray(<<>>)
                  newArray == IF JsTruthy(newValue) THEN newValue ELSE JsArray(<<>>)
                  lo == LengthOf(oldArray)
                  ln == LengthOf(newArray)
                  \* Math.max of an undefined length is NaN and the loop does not run
                  length == IF lo.defined /\ ln.defined THEN Max(lo.n, ln.n) ELSE 0
              IN CompareItems(ChildOf(desc, "[]"), path, oldArray, newArray, 0, length)
         [] OTHER -> <<>>

CompareKeys(desc, path, oldValue, newValue, allKeys, k) ==
  IF k > Len(allKeys) THEN <<>>
  ELSE LET key == allKeys[k]
           subDesc == ChildForKey(desc, key)
       IN (IF subDesc = NoDescriptor THEN <<>>
           ELSE compare(subDesc, ChildPath(path, key[1]), JsGet(oldValue, key), JsGet(newValue, key)))
          \o CompareKeys(desc, path, oldValue, newValue, allKeys, k + 1)

CompareItems(subDesc, path, oldArray, newArray, i, length) ==
  IF i >= length THEN <<>>
  ELSE compare(subDesc, IndexPath(path, i), JsGet(oldArray, <<ToString(i)>>), JsGet(newArray, <<ToString(i)>>))
       \o CompareItems(subDesc, path, oldArray, newArray, i + 1, length)

\* diff(view, oldSab, newData), for a view with no onDiff callback
Diff(view, oldSab, newData) ==
  IF BufferTooSmall(view, oldSab) THEN Outcome("BufferTooSmall", oldSab, JsUndefined)
  ELSE LET oldData == ViewDecode(view, oldSab)
       IN IF oldData.err # "" THEN Outcome(oldData.err, oldSab, JsUndefined)
          ELSE [Outcome("", oldSab, JsUndefined) EXCEPT
                  !.patches = compare(view.schema.descriptorTree, <<>>, oldData.ret, newData)]

\* applyPatch(view, sab, patch), for a view with no beforePatch callback
ApplyPatch(view, sab, patch) ==
  IF ~view.options.mutable THEN Outcome("Immutable", sab, JsUndefined)
  ELSE IF BufferTooSmall(view, sab) THEN Outcome("BufferTooSmall", sab, JsUndefined)
  ELSE CASE patch.op \in {"replace", "add"} -> ViewSet(view, patch.path, patch.value, sab)
         [] patch.op = "remove" -> ViewSet(view, patch.path, JsUndefined, sab)
         [] OTHER -> Outcome("UnsupportedOperation", sab, JsUndefined)


\* ------------------------------------------------------------------------
\* ViewSync
\* ------------------------------------------------------------------------

\* Number of ViewSync handles created on the segment in a run.
MaxHandles == 2

\* A handle before its constructor ran.  lastVersion is the version counter
\* the handle saw last; boundPaths the paths it decodes (the Set, in order);
\* scheduled whether a poll is pending (pollHandle of a live timer); bound
\* the target of boundVariable's Proxy, JsNull for null; trap the `paths`
\* argument the Proxy's set trap closed over; onUpdate the callback: "none"
\* for null, "log" for one that records its data, "destroy" for one that
\* records its data and calls destroy() on the handle; destroyed whether
\* destroy() was called on it.
NoHandle ==
  [created |-> FALSE, lastVersion |-> <<0, 0, 0, 0>>, boundPaths |-> <<>>, scheduled |-> FALSE,
   bound |-> JsNull, trap |-> [given |-> FALSE, paths |-> <<>>], onUpdate |-> "none",
   destroyed |-> FALSE]

RECURSIVE DecodePaths(_, _, _, _, _)
\* Object.fromEntries([...boundPaths].map(p => [p.split('.').pop(),
\* view.decodePartial(p, sab)])), from the k-th path on
DecodePaths(v, paths, buf, result, k) ==
  IF k > Len(paths) THEN Outcome("", buf, result)
  ELSE LET r == ViewDecodePartial(v, paths[k], buf)
       IN IF r.err # "" THEN Outcome(r.err, buf, JsUndefined)
          ELSE DecodePaths(v, paths, buf, JsPut(result, LastSegment(paths[k]), r.ret), k + 1)

\* The data a handle decodes when it sees a new version.
SyncData(v, handle, buf) ==
  IF Len(handle.boundPaths) > 0
  THEN DecodePaths(v, handle.boundPaths, buf, JsObject(<<>>, <<>>), 1)
  ELSE ViewDecode(v, buf)

\* The element of a one-element set.  Only({ e(x) : x \in {value} }) is
\* e(value) with value computed once, as a const declaration computes it.
Only(S) == CHOOSE x \in S : TRUE

\* The state the ViewSync code runs on: the segment, the handles, the
\* registry entry of the segment and the callbacks invoked so far in the
\* running call; err is "" until something throws.
SyncState(buf, hs, reg) ==
  [err |-> "", sab |-> buf, handles |-> hs, registry |-> reg, callbacks |-> <<>>]

\* paths.includes(path)
Includes(paths, path) == \E i \in 1..Len(paths) : paths[i] = path

\* A test that no value passes.
IsUndefined_Never(value) == FALSE

\* value === undefined
IsUndefined(value) == value.t = "Undefined"

\* A set trap that stores the value in the local object before it calls View.set.
TrapSet_LocalFirst(v, st, h, prop, value) ==
  IF st.handles[h].trap.given /\ ~Includes(st.handles[h].trap.paths, prop)
  THEN [st EXCEPT !.handles[h].bound = JsPut(@, prop, value)]
  ELSE IF IsUndefined(value) THEN [st EXCEPT !.err = "UndefinedNotAllowed"]
  ELSE Only({ [st EXCEPT !.err = r.err, !.sab = r.sab, !.handles[h].bound = JsPut(@, prop, value)] :
              r \in {ViewSet(v, prop, value, st.sab)} })

\* The set trap of the Proxy bind made for handle h: proxy[prop] = value.
TrapSet(v, st, h, prop, value) ==
  IF st.handles[h].trap.given /\ ~Includes(st.handles[h].trap.paths, prop)
  THEN [st EXCEPT !.handles[h].bound = JsPut(@, prop, value)]
  ELSE IF IsUndefined(value) THEN [st EXCEPT !.err = "UndefinedNotAllowed"]
  ELSE Only({ IF r.err # "" THEN [st EXCEPT !.err = r.err, !.sab = r.sab]
              ELSE [st EXCEPT !.sab = r.sab, !.handles[h].bound = JsPut(@, prop, value)] :
              r \in {ViewSet(v, prop, value, st.sab)} })

RECURSIVE Merge(_, _, _, _, _)
\* Object.assign(this.boundVariable, data), from the k-th property of data on
Merge(v, st, h, data, k) ==
  IF k > Len(data.keys) THEN st
  ELSE Only({ IF s1.err # "" THEN s1 ELSE Merge(v, s1, h, data, k + 1) :
              s1 \in {TrapSet(v, st, h, data.keys[k], data.vals[k])} })

\* ViewSync.destroy() of handle h
DestroyIn(st, h) ==
  [st EXCEPT !.handles[h].scheduled = FALSE,
             !.handles[h].destroyed = TRUE,
             !.handles[h].bound = JsNull,
             !.handles[h].onUpdate = "none",
             !.registry = SelectSeq(@, LAMBDA g : g # h)]

\* this.onUpdate(data), if there is a callback
Callback(st, h, data) ==
  IF st.handles[h].onUpdate = "none" THEN st
  ELSE Only({ IF st.handles[h].onUpdate = "destroy" THEN DestroyIn(s1, h) ELSE s1 :
              s1 \in {[st EXCEPT !.callbacks = Append(@, [handle |-> h, data |-> data])]} })

\* version !== this.lastVersion
SeesChange(st, h) == Version(st.sab) # st.handles[h].lastVersion

\* The body of `if (version !== this.lastVersion)` that poll and notify
\* share: lastVersion is set, the data decoded, merged into the bound
\* variable if there is one, and given to the callback if there is one.
Refresh(v, st, h) ==
  Only({ Only({ IF data.err # "" THEN [s1 EXCEPT !.err = data.err]
                ELSE Only({ IF s2.err # "" THEN s2 ELSE Callback(s2, h, data.ret) :
                            s2 \in {IF s1.handles[h].bound # JsNull
                                    THEN Merge(v, s1, h, data.ret, 1) ELSE s1} }) :
                data \in {SyncData(v, s1.handles[h], s1.sab)} }) :
         s1 \in {[st EXCEPT !.handles[h].lastVersion = Version(st.sab)]} })

\* ViewSync.notify() of handle h
Notify(v, st, h) == IF SeesChange(st, h) THEN Refresh(v, st, h) ELSE st

RECURSIVE NotifyOthers(_, _, _, _, _)
\* viewSyncRegistry.get(this.sab)?.forEach(v => v !== this && v.notify()),
\* from the k-th handle of the Set on; a handle deleted from the Set before
\* its turn is not visited.
NotifyOthers(v, st, h, members, k) ==
  IF k > Len(members) THEN st
  ELSE IF members[k] = h \/ ~Includes(st.registry, members[k])
  THEN NotifyOthers(v, st, h, members, k + 1)
  ELSE Only({ IF s1.err # "" THEN s1 ELSE NotifyOthers(v, s1, h, members, k + 1) :
              s1 \in {Notify(v, st, members[k])} })

\* The rest of poll for handle h once it has seen a new version: the
\* refresh, the nudge of the other handles of the segment, then the next
\* poll is scheduled.  An error thrown on the way leaves it unscheduled.
PollNewVersion(v, st, h) ==
  Only({ IF s1.err # "" THEN s1
         ELSE Only({ IF s2.err # "" THEN s2 ELSE [s2 EXCEPT !.handles[h].scheduled = TRUE] :
                     s2 \in {NotifyOthers(v, s1, h, s1.registry, 1)} }) :
         s1 \in {Refresh(v, st, h)} })

\* One run of the closure poll of startPolling for handle h.  The pending
\* timer is the one that fired.
PollOnce(v, st, h) ==
  Only({ IF SeesChange(s0, h) THEN PollNewVersion(v, s0, h)
         ELSE [s0 EXCEPT !.handles[h].scheduled = TRUE] :
         s0 \in {[st EXCEPT !.handles[h].scheduled = FALSE]} })

\* A constructor that registers the handle before it checks the size.
ConstructViewSync_RegistersFirst(v, st, h, paths) ==
  LET s1 == [st EXCEPT !.handles[h] = [NoHandle EXCEPT !.created = TRUE, !.boundPaths = paths],
                       !.registry = Append(@, h)]
  IN IF byteLength(st.sab) < v.byteSize THEN [s1 EXCEPT !.err = "BufferTooSmall"]
     ELSE PollOnce(v, s1, h)

\* new ViewSync(view, sab, { boundPaths }) as handle h: the size check, the
\* registration, then startPolling, which runs the first poll at once.
ConstructViewSync(v, st, h, paths) ==
  IF byteLength(st.sab) < v.byteSize THEN [st EXCEPT !.err = "BufferTooSmall"]
  ELSE PollOnce(v, [st EXCEPT !.handles[h] = [NoHandle EXCEPT !.created = TRUE,
                                                              !.boundPaths = paths],
                              !.registry = IF Includes(@, h) THEN @ ELSE Append(@, h)], h)

\* ViewSync.bind(variable, paths) of handle h; given is whether paths was passed.
BindIn(st, h, variable, given, paths) ==
  [st EXCEPT !.handles[h].bound = variable,
             !.handles[h].trap = [given |-> given, paths |-> IF given THEN paths ELSE <<>>],
             !.handles[h].boundPaths = IF given THEN paths ELSE @]

\* ViewSync.syncToSab() of handle h
SyncToSabIn(v, st, h) ==
  IF st.handles[h].bound = JsNull THEN [st EXCEPT !.err = "NoBoundVariable"]
  ELSE Only({ [st EXCEPT !.err = r.err, !.sab = r.sab] :
              r \in {ViewEncode(v, st.handles[h].bound, st.sab)} })

\* ------------------------------------------------------------------------
\* Inputs
\* ------------------------------------------------------------------------

Key(name) == <<name>>

Hello == <<104, 101, 108, 108, 111>>

World == <<119, 111, 114, 108, 100>>

\* The sample values views are created from.
Samples ==
  { \* { num: 42, str: 'hello' }
    JsObject(<<Key("num"), Key("str")>>, <<JsNumber(42), JsString(Hello)>>),
    \* { count: 0 }
    JsObject(<<Key("count")>>, <<JsNumber(0)>>),
    \* { user: { name: 'ab', age: 1 }, flag: true }
    JsObject(<<Key("user"), Key("flag")>>,
             <<JsObject(<<Key("name"), Key("age")>>, <<JsString(<<97, 98>>), JsNumber(1)>>),
               JsBoolean(TRUE)>>),
    \* { tags: ['ab', 'abcd'] }
    JsObject(<<Key("tags")>>, <<JsArray(<<JsString(<<97, 98>>), JsString(<<97, 98, 99, 100>>)>>)>>),
    \* { typed: new Uint8Array([4, 5]), n: null }
    JsObject(<<Key("typed"), Key("n")>>, <<JsTypedArray("Uint8Array", <<4, 5>>), JsNull>>),
    \* { Number: 1, Object: { Boolean: true }, Array: [2] }: fields named like
    \* their data types
    JsObject(<<Key("Number"), Key("Object"), Key("Array")>>,
             <<JsNumber(1), JsObject(<<Key("Boolean")>>, <<JsBoolean(TRUE)>>),
               JsArray(<<JsNumber(2)>>)>>),
    \* { String: 'ab', Number: 1 }: a string slot followed by another field
    JsObject(<<Key("String"), Key("Number")>>, <<JsString(<<97, 98>>), JsNumber(1)>>) }

Reverse(seq) == [i \in 1..Len(seq) |-> seq[Len(seq) + 1 - i]]

RECURSIVE Other(_)
\* A value of the same shape as v with every leaf changed.
Other(v) ==
  CASE v.t = "Number" -> IF v.n = 100 THEN JsNumber(7) ELSE JsNumber(100)
    [] v.t = "String" -> IF v.s = Hello THEN JsString(World) ELSE JsString(Reverse(v.s))
    [] v.t = "Boolean" -> JsBoolean(v.n = 0)
    [] v.t \in TypedArrayTypes -> JsTypedArray(v.t, [i \in 1..Len(v.s) |-> (v.s[i] + 1) % 256])
    [] v.t \in {"Object", "Array"} -> [v EXCEPT !.vals = [i \in 1..Len(v.vals) |-> Other(v.vals[i])]]
    [] OTHER -> v

\* v with its first property set to undefined, and with it left out.
WithUndefined(v) == [v EXCEPT !.vals[1] = JsUndefined]

WithoutFirst(v) == [v EXCEPT !.keys = Tail(v.keys), !.vals = Tail(v.vals)]

RECURSIVE Longer(_)
\* v with every string changed and one byte longer.
Longer(v) ==
  CASE v.t = "String" -> JsString(Reverse(v.s) \o <<33>>)
    [] v.t \in {"Object", "Array"} -> [v EXCEPT !.vals = [i \in 1..Len(v.vals) |-> Longer(v.vals[i])]]
    [] OTHER -> v

\* The data handed to encode and diff for a view created from sample.
DataFor(sample) ==
  {sample, Other(sample), WithUndefined(sample), WithoutFirst(sample), Longer(sample)}

\* A path no schema of the model has.
BogusPath == <<"nope">>

PathsOf(schema) == {schema.flatIndex[i].path : i \in 1..Len(schema.flatIndex)} \cup {BogusPath}

\* The values handed to set for a path: the sample's value there, a changed
\* one, a longer string, undefined.
ValuesFor(sample, path) ==
  LET v == getValueByPath(sample, path)
  IN {v, Other(v), JsUndefined} \cup (IF v.t = "String" THEN {Longer(v)} ELSE {})

\* pathsAndValues of bulkSet: nothing, one path, or two with a second valid
\* or invalid path.
BulkInputs(sample, schema) ==
  LET first == schema.flatIndex[1].path
      e1 == [path |-> first, value |-> Other(getValueByPath(sample, first))]
      lastPath == schema.flatIndex[Len(schema.flatIndex) - 1].path
  IN { <<>>, <<e1>>, <<e1, [path |-> BogusPath, value |-> JsNumber(1)]>>,
       <<[path |-> lastPath, value |-> Other(getValueByPath(sample, lastPath))], e1>>,
       <<[path |-> lastPath, value |-> Other(getValueByPath(sample, lastPath))],
         [path |-> BogusPath, value |-> JsNumber(1)]>> }

PatchInputs(sample, schema) ==
  {Patch(op, path, Other(getValueByPath(sample, path))) :
     op \in {"replace", "add", "remove"}, path \in PathsOf(schema)}

\* ------------------------------------------------------------------------
\* The stores of one call, in program order
\* ------------------------------------------------------------------------

\* No writer call in flight and no reader: pending are the segment states the
\* call in flight has yet to store, target the field bytes it will have
\* written, landed the calls whose field bytes are all in the segment, base
\* the version counter before the first call, loaded the version the reader
\* read (-1 before), floor the value of landed when the reader decoded.
NoRace ==
  [pending |-> <<>>, target |-> <<>>, counted |-> TRUE, landed |-> 0, base |-> 0,
   loaded |-> -1, decoded |-> FALSE, floor |-> 0]

\* View.prototype.set, bulkSet or encode, by the op of the call.
WriteOutcome(v, call, buf) ==
  CASE call.op = "set" -> ViewSet(v, call.path, call.value, buf)
    [] call.op = "bulkSet" -> ViewBulkSet(v, call.entries, buf)
    [] OTHER -> ViewEncode(v, call.value, buf)

\* The segment after each this.compiled.set of a bulkSet, up to and
\* including the one that throws.
RECURSIVE BulkWrites(_, _, _, _)
BulkWrites(schema, entries, buf, k) ==
  IF k > Len(entries) THEN <<>>
  ELSE Only({ IF w.err # "" THEN <<w.sab>>
              ELSE <<w.sab>> \o BulkWrites(schema, entries, w.sab, k + 1) :
              w \in {compiledSet(schema, entries[k].path, entries[k].value, buf)} })

\* The segment after each field-writing statement of the call, in program
\* order; none if the call throws before it writes.
FieldWrites(v, call, buf) ==
  IF WriteOutcome(v, call, buf).err
       \in {"Immutable", "BufferTooSmall", "ImmutableSizeMismatch", "UndefinedValues"}
  THEN <<>>
  ELSE CASE call.op = "set" -> <<compiledSet(v.schema, call.path, call.value, buf).sab>>
         [] call.op = "bulkSet" -> BulkWrites(v.schema, call.entries, buf, 1)
         [] OTHER -> <<compiledEncode(v.schema, call.value, buf, DirtyFields({})).sab>>

\* The segment after the last field write of the call.
AfterWrites(v, call, buf) ==
  Only({ IF w = <<>> THEN buf ELSE w[Len(w)] : w \in {FieldWrites(v, call, buf)} })

\* The stores with the Atomics.add before the field writes.
Stores_CountFirst(v, call, buf) ==
  Only({ IF out.err # "" THEN w
         ELSE <<AtomicsAdd(buf)>> \o [i \in 1..Len(w) |-> AtomicsAdd(w[i])] :
         w \in {FieldWrites(v, call, buf)}, out \in {WriteOutcome(v, call, buf)} })

\* The segment states the call stores, in program order: the field writes,
\* then, in a call that does not throw, the Atomics.add on the counter.
Stores(v, call, buf) ==
  Only({ IF out.err # "" THEN w
         ELSE w \o <<AtomicsAdd(IF w = <<>> THEN buf ELSE w[Len(w)])>> :
         w \in {FieldWrites(v, call, buf)}, out \in {WriteOutcome(v, call, buf)} })

\* ------------------------------------------------------------------------
\* LRUCache
\* ------------------------------------------------------------------------

\* Map.prototype.delete(key) on a map kept as its entries in insertion order.
MapDelete(map, key) == SelectSeq(map, LAMBDA en : en.path # key)

\* new LRUCache(maxSize), maxSize > 0
NewCache(maxSize) == [maxSize |-> maxSize, cache |-> <<>>]

\* No cache in use.
NoCache == NewCache(1)

\* LRUCache.prototype.get(key): the cache afterwards and the value returned.
CacheGetIn(c, key) ==
  LET value == IF MapHas(c.cache, key) THEN MapGet(c.cache, key) ELSE JsUndefined
  IN [lru |-> IF JsTruthy(value)
              THEN [c EXCEPT !.cache = MapSet(MapDelete(c.cache, key), key, value)]
              ELSE c,
      ret |-> value]

\* LRUCache.prototype.set(key, value).  The keys are strings, so the first
\* key of a map that is not empty is never undefined.
CacheSetIn(c, key, value) ==
  LET kept == IF Len(c.cache) >= c.maxSize /\ Len(c.cache) > 0
              THEN MapDelete(c.cache, c.cache[1].path)
              ELSE c.cache
  IN [c EXCEPT !.cache = MapSet(kept, key, value)]

\* ------------------------------------------------------------------------
\* State
\* ------------------------------------------------------------------------

VARIABLES
  sample,    \* the value the view was created from
  view,      \* the View: its options and schema
  sab,       \* the SharedArrayBuffer the calls are given
  handles,   \* the ViewSync handles, by number
  registry,  \* viewSyncRegistry.get(sab): the handles on the segment, in order
  last,      \* the last call: its arguments, its outcome, the buffer before it
  steps,     \* number of calls made
  lru,       \* an LRUCache: its maxSize and its Map, entries in insertion order
  used,      \* the keys of the cache in the order of their last get or set
  rw         \* a writer's call in flight on the segment and a reader's position

vars == <<sample, view, sab, handles, registry, last, steps, lru, used, rw>>

Call(op, path, value, entries) ==
  [op |-> op, path |-> path, value |-> value, entries |-> entries, handle |-> 0]

\* What is kept of the call before the last one.
Brief(call) ==
  [op |-> call.op, path |-> call.path, value |-> call.value, handle |-> call.handle,
   err |-> call.err]

NoPrev == [op |-> "", path |-> <<>>, value |-> JsUndefined, handle |-> 0, err |-> ""]

\* The record of a call and its outcome on the buffer pre: callbacks are the
\* update callbacks the call invoked, preHandles the handles before it, prev
\* the call before it where the ViewSync calls keep it.
Done(call, out, pre) ==
  [op |-> call.op, path |-> call.path, value |-> call.value, entries |-> call.entries,
   handle |-> call.handle, err |-> out.err, ret |-> out.ret, patches |-> out.patches,
   pre |-> pre, callbacks |-> <<>>, preHandles |-> handles, prev |-> NoPrev]

\* new SharedArrayBuffer(size): zero-filled; version is the counter the
\* earlier writers of the segment left.
NewBuffer(size, version) == WriteBytes([i \in 1..size |-> 0], 0, version)

InitialVersions == {<<0, 0, 0, 0>>, <<255, 255, 0, 0>>, <<255, 255, 255, 255>>}

Init ==
  \E data \in Samples, mutable \in BOOLEAN, version \in InitialVersions :
    \E extra \in {-1, 0, Slack} :
      /\ sample = data
      /\ view = NewView(data, mutable)
      /\ sab = NewBuffer(inferSchema(data).byteSize + extra, version)
      /\ handles = [h \in 1..MaxHandles |-> NoHandle]
      /\ registry = <<>>
      /\ last = Done(Call("new", <<>>, JsUndefined, <<>>),
                     Outcome("", sab, JsUndefined), sab)
      /\ steps = 0
      /\ lru = NoCache
      /\ used = <<>>
      /\ rw = NoRace

\* A call is made, its outcome recorded and the buffer left as the call left it.
Perform(call, out) ==
  /\ steps < MaxSteps
  /\ steps' = steps + 1
  /\ sab' = out.sab
  /\ last' = Done(call, out, sab)
  /\ UNCHANGED <<sample, view, handles, registry, lru, used, rw>>

Encode ==
  \E data \in DataFor(sample) :
    Perform(Call("encode", <<>>, data, <<>>), ViewEncode(view, data, sab))

Decode ==
  \E out \in {ViewDecode(view, sab)} :
    Perform(Call("decode", <<>>, JsUndefined, <<>>), out)

DecodePartial ==
  \E path \in PathsOf(view.schema) :
    Perform(Call("decodePartial", path, JsUndefined, <<>>), ViewDecodePartial(view, path, sab))

GetTypedArray ==
  \E path \in PathsOf(view.schema) :
    Perform(Call("getTypedArray", path, JsUndefined, <<>>), ViewGetTypedArray(view, path, sab))

Set ==
  \E path \in PathsOf(view.schema) :
    \E value \in ValuesFor(sample, path) :
      Perform(Call("set", path, value, <<>>), ViewSet(view, path, value, sab))

BulkSet ==
  \E entries \in BulkInputs(sample, view.schema) :
    Perform(Call("bulkSet", <<>>, JsUndefined, entries), ViewBulkSet(view, entries, sab))

PatchObject ==
  \E path \in PathsOf(view.schema) :
    LET partial == Other(getValueByPath(sample, path))
    IN Perform(Call("patch", path, partial, <<>>), ViewPatch(view, path, partial, sab))

DiffData ==
  \E data \in DataFor(sample) :
    Perform(Call("diff", <<>>, data, <<>>), Diff(view, sab, data))

ApplyOnePatch ==
  \E patch \in PatchInputs(sample, view.schema) :
    Perform(Call("applyPatch", patch.path, patch.value, <<[op |-> patch.op]>>),
            ApplyPatch(view, sab, patch))

\* The bound paths given to a ViewSync: none, or the first path of the index.
BoundPathInputs(schema) == {<<>>, <<schema.flatIndex[1].path>>}

NewViewSync ==
  \E h \in 1..MaxHandles, paths \in BoundPathInputs(view.schema) :
    /\ ~handles[h].created
    /\ \A g \in 1..(h - 1) : handles[g].created
    /\ steps < MaxSteps
    /\ \E r \in {ConstructViewSync(view, SyncState(sab, handles, registry), h, paths)} :
          /\ handles' = r.handles
          /\ registry' = r.registry
          /\ sab' = r.sab
          /\ last' = [Done([Call("newViewSync", <<>>, JsUndefined, paths) EXCEPT !.handle = h],
                           Outcome(r.err, sab, JsUndefined), sab)
                        EXCEPT !.callbacks = r.callbacks]
    /\ steps' = steps + 1
    /\ UNCHANGED <<sample, view, lru, used, rw>>

\* The pending poll of a handle fires.
Poll ==
  \E h \in 1..MaxHandles :
    /\ handles[h].scheduled
    /\ steps < MaxSteps
    /\ \E r \in {PollOnce(view, SyncState(sab, handles, registry), h)} :
          /\ handles' = r.handles
          /\ registry' = r.registry
          /\ sab' = r.sab
          /\ last' = [Done([Call("poll", <<>>, JsUndefined, <<>>) EXCEPT !.handle = h],
                           Outcome(r.err, sab, JsUndefined), sab)
                        EXCEPT !.callbacks = r.callbacks]
    /\ steps' = steps + 1
    /\ UNCHANGED <<sample, view, lru, used, rw>>

Next ==
  \/ NewViewSync
  \/ Poll
  \/ Encode
  \/ Decode
  \/ DecodePartial
  \/ GetTypedArray
  \/ Set
  \/ BulkSet
  \/ PatchObject
  \/ DiffData
  \/ ApplyOnePatch

Spec == Init /\ [][Next]_vars

\* ------------------------------------------------------------------------
\* Two ViewSync handles on one segment
\* ------------------------------------------------------------------------

\* Calls made by the contexts in a behaviour of SyncSpec; polls, bind and
\* onUpdateCallback are not counted.
MaxSyncSteps == 2

\* The version counter up to which polls are followed.  The contexts' calls
\* alone raise the counter to at most 1 + MaxSyncSteps.
MaxVersion == 8

\* The paths of the index that hold a leaf.
LeafPaths(schema) ==
  {schema.flatIndex[i].path : i \in {k \in 1..Len(schema.flatIndex) :
                                       schema.flatIndex[k].e.type \notin {"Object", "Array"}}}

\* The leaf paths of the index that lie inside a nested object, such as
\* 'Object.Boolean'.
NestedPaths(schema) == {path \in LeafPaths(schema) : \E i \in 1..Len(path) : path[i] = "."}

\* The boundPaths option and the paths argument of bind: the first path of
\* the index, or a path inside a nested object.
SyncPathInputs(schema) ==
  {<<schema.flatIndex[1].path>>} \cup {<<path>> : path \in NestedPaths(schema)}

\* { count: 0 } and the sample with fields named like their data types
SyncSamples == {d \in Samples : d.keys[1] \in {Key("count"), Key("Number")}}

\* A property no sample has.
NewProp == Key("note")

\* The state after two handles were constructed on a fresh segment whose
\* version counter is version; the view is mutable.
Constructed(data, version, extra, paths1, paths2) ==
  Only({ Only({ IF r1.err # "" THEN r1 ELSE ConstructViewSync(v, r1, 2, paths2) :
                r1 \in {ConstructViewSync(v, SyncState(NewBuffer(v.byteSize + extra, version),
                                                       [h \in 1..MaxHandles |-> NoHandle], <<>>),
                                          1, paths1)} }) :
         v \in {NewView(data, TRUE)} })

\* Two handles are constructed on a fresh segment whose version counter is
\* 0, or 1 after one encode.
SyncInit ==
  \E data \in SyncSamples, version \in {<<0, 0, 0, 0>>, <<1, 0, 0, 0>>}, extra \in {0, Slack} :
    \E paths1 \in {<<>>} \cup SyncPathInputs(inferSchema(data)) :
      \E r \in {Constructed(data, version, extra, paths1, <<>>)} :
        /\ r.err = ""
        /\ sample = data
        /\ view = NewView(data, TRUE)
        /\ sab = r.sab
        /\ handles = r.handles
        /\ registry = r.registry
        /\ last = Done([Call("newViewSync", <<>>, JsUndefined, <<>>) EXCEPT !.handle = 2],
                       Outcome("", r.sab, JsUndefined), r.sab)
        /\ steps = 0
        /\ lru = NoCache
        /\ used = <<>>
        /\ rw = NoRace

\* A context makes a ViewSync call on handle h that leaves the state st.
SyncPerform(call, h, st) ==
  /\ steps < MaxSyncSteps
  /\ steps' = steps + 1
  /\ sab' = st.sab
  /\ handles' = st.handles
  /\ registry' = st.registry
  /\ last' = [Done([call EXCEPT !.handle = h], Outcome(st.err, st.sab, JsUndefined), sab)
                EXCEPT !.callbacks = st.callbacks, !.prev = Brief(last)]
  /\ UNCHANGED <<sample, view, lru, used, rw>>

\* bound = sync.bind(data) or, on the first handle, sync.bind(data, [first
\* path]); once per handle, before the contexts' calls
BindObject ==
  \E h \in 1..MaxHandles, given \in BOOLEAN, paths \in SyncPathInputs(view.schema) :
    /\ steps = 0
    /\ given => h = 1
    /\ ~given => paths = <<view.schema.flatIndex[1].path>>
    /\ handles[h].created /\ ~handles[h].destroyed /\ handles[h].bound = JsNull
    /\ handles' = BindIn(SyncState(sab, handles, registry), h, sample, given, paths).handles
    /\ UNCHANGED <<sample, view, sab, registry, last, steps, lru, used, rw>>

\* sync.onUpdateCallback(cb), once per handle, before the contexts' calls;
\* the callback that destroys its handle is given to the first handle
OnUpdateCallback ==
  \E h \in 1..MaxHandles, kind \in {"log", "destroy"} :
    /\ steps = 0
    /\ kind = "destroy" => h = 1
    /\ handles[h].created /\ ~handles[h].destroyed /\ handles[h].onUpdate = "none"
    /\ handles' = [handles EXCEPT ![h].onUpdate = kind]
    /\ UNCHANGED <<sample, view, sab, registry, last, steps, lru, used, rw>>

\* The properties assigned to on a bound object: its first, and its second
\* or else a new one.
AssignProps(bound) ==
  {bound.keys[1]} \cup (IF Len(bound.keys) > 1 THEN {bound.keys[2]} ELSE {NewProp})

\* The values assigned to a property of a bound object.
AssignInputs(bound, prop) ==
  IF HasKey(bound, prop) THEN {Other(JsGet(bound, prop)), JsUndefined}
  ELSE {JsNumber(5), JsUndefined}

\* bound[prop] = value through the wrapper bind returned
Assign ==
  \E h \in 1..MaxHandles :
    /\ handles[h].bound # JsNull
    /\ \E prop \in AssignProps(handles[h].bound) :
         \E value \in AssignInputs(handles[h].bound, prop) :
           \E st \in {TrapSet(view, SyncState(sab, handles, registry), h, prop, value)} :
             SyncPerform(Call("assign", prop, value, <<>>), h, st)

\* A nested container of the bound object is changed in place, which the
\* wrapper does not see.
MutateInPlace ==
  \E h \in 1..MaxHandles :
    /\ handles[h].bound # JsNull
    /\ \E i \in 1..Len(handles[h].bound.keys) :
         /\ handles[h].bound.vals[i].t \in {"Object", "Array"}
         /\ SyncPerform(Call("mutate", handles[h].bound.keys[i], JsUndefined, <<>>), h,
                        [SyncState(sab, handles, registry)
                           EXCEPT !.handles[h].bound.vals[i] = Other(@)])

SyncToSab ==
  \E h \in 1..MaxHandles :
    /\ handles[h].created
    /\ \E st \in {SyncToSabIn(view, SyncState(sab, handles, registry), h)} :
         SyncPerform(Call("syncToSab", <<>>, JsUndefined, <<>>), h, st)

Destroy ==
  \E h \in 1..MaxHandles :
    /\ handles[h].created
    /\ \E st \in {DestroyIn(SyncState(sab, handles, registry), h)} :
         SyncPerform(Call("destroy", <<>>, JsUndefined, <<>>), h, st)

\* The version counter as a number, while it is below 256.
VersionNumber(buf) == IF SubSeq(Version(buf), 2, 4) = <<0, 0, 0>> THEN Version(buf)[1] ELSE 256

\* The pending poll of handle h fires and finds a new version.  (A poll
\* that finds the version it saw last changes nothing.)
PollOf(h) ==
  /\ handles[h].scheduled
  /\ SeesChange(SyncState(sab, handles, registry), h)
  /\ VersionNumber(sab) < MaxVersion
  /\ \E st \in {PollOnce(view, SyncState(sab, handles, registry), h)} :
       /\ sab' = st.sab
       /\ handles' = st.handles
       /\ registry' = st.registry
       /\ last' = [Done([Call("poll", <<>>, JsUndefined, <<>>) EXCEPT !.handle = h],
                        Outcome(st.err, st.sab, JsUndefined), sab)
                     EXCEPT !.callbacks = st.callbacks, !.prev = Brief(last)]
  /\ UNCHANGED <<sample, view, steps, lru, used, rw>>

SyncPoll == \E h \in 1..MaxHandles : PollOf(h)

SyncNext ==
  \/ BindObject
  \/ OnUpdateCallback
  \/ Assign
  \/ MutateInPlace
  \/ SyncToSab
  \/ Destroy
  \/ SyncPoll

SyncSpec == SyncInit /\ [][SyncNext]_vars

\* ------------------------------------------------------------------------
\* Properties
\* ------------------------------------------------------------------------

MutatingOps == {"encode", "set", "bulkSet", "patch", "applyPatch"}

ReadOnlyOps == {"decode", "decodePartial", "getTypedArray", "diff"}

\* The operations that check options.mutable before the buffer's size.
MutableFirstOps == {"set", "bulkSet", "patch", "applyPatch"}

\* The call recorded in last, made again with view v on buffer buf.
Again(v, buf) ==
  CASE last.op = "encode" -> ViewEncode(v, last.value, buf)
    [] last.op = "decode" -> ViewDecode(v, buf)
    [] last.op = "decodePartial" -> ViewDecodePartial(v, last.path, buf)
    [] last.op = "getTypedArray" -> ViewGetTypedArray(v, last.path, buf)
    [] last.op = "set" -> ViewSet(v, last.path, last.value, buf)
    [] last.op = "bulkSet" -> ViewBulkSet(v, last.entries, buf)
    [] last.op = "patch" -> ViewPatch(v, last.path, last.value, buf)
    [] last.op = "diff" -> Diff(v, buf, last.value)
    [] last.op = "applyPatch" ->
         ApplyPatch(v, buf, Patch(last.entries[1].op, last.path, last.value))
    [] last.op = "newViewSync" ->
         Outcome(ConstructViewSync(v, SyncState(buf, [h \in 1..MaxHandles |-> NoHandle], <<>>),
                                   1, last.entries).err, buf, JsUndefined)
    [] OTHER -> Outcome("", buf, JsUndefined)

RECURSIVE SameShape(_, _)
\* v has the shape of w: the same types and keys throughout, arrays of the
\* same length, strings no longer than those of w.
SameShape(v, w) ==
  /\ v.t = w.t
  /\ CASE v.t = "String" -> Len(v.s) <= Len(w.s)
       [] v.t \in TypedArrayTypes -> Len(v.s) = Len(w.s)
       [] v.t \in {"Object", "Array"} ->
            /\ v.keys = w.keys
            /\ \A i \in 1..Len(v.vals) : SameShape(v.vals[i], w.vals[i])
       [] OTHER -> TRUE

\* A successful encode of a value of the sample's shape on a mutable view.
EncodedSameShape ==
  /\ last.op = "encode"
  /\ last.err = ""
  /\ view.options.mutable
  /\ SameShape(last.value, sample)

\* C1: on a mutable view, encode(v) for a v of the sample's shape followed by
\* decode returns a value structurally equal to v.
C1_RoundTrip ==
  EncodedSameShape =>
    LET back == ViewDecode(view, sab)
    IN back.err = "" /\ back.ret = last.value

Lo16(b) == b[1] + 256 * b[2]

Hi16(b) == b[3] + 256 * b[4]

\* C2: every successful encode, set, bulkSet, patch or applyPatch leaves the
\* version counter of bytes 0-3 at its old value plus one modulo 2^32,
\* however many fields the call writes.
C2_VersionPlusOne ==
  (last.op \in MutatingOps /\ last.err = "") =>
    LET old == Version(last.pre)
        new == Version(sab)
    IN IF Lo16(old) = 65535
       THEN Lo16(new) = 0 /\ Hi16(new) = (Hi16(old) + 1) % 65536
       ELSE Lo16(new) = Lo16(old) + 1 /\ Hi16(new) = Hi16(old)

\* A successful bulkSet of two fields that wraps the counter from 2^32 - 1 to 0.
C2_Witness ==
  /\ last.op = "bulkSet"
  /\ last.err = ""
  /\ Len(last.entries) = 2
  /\ Version(last.pre) = <<255, 255, 255, 255>>
  /\ Version(sab) = <<0, 0, 0, 0>>
  /\ \E off \in 8..(Len(sab) - 1) : ByteAt(sab, off) # ByteAt(last.pre, off)

\* C3: decode, decodePartial, getTypedArray and diff leave every byte of the
\* segment as it was, and a view created with mutable=false gives them the
\* outcome a mutable view gives: they never fail for want of mutability.
C3_ReadOnly ==
  last.op \in ReadOnlyOps =>
    /\ sab = last.pre
    /\ last.err \notin {"Immutable", "ImmutableSizeMismatch"}
    /\ LET twin == Again([view EXCEPT !.options.mutable = TRUE], last.pre)
       IN twin.err = last.err /\ twin.ret = last.ret /\ twin.patches = last.patches

\* A diff on an immutable view, after the counter moved, that returns patches.
C3_Witness ==
  /\ ~view.options.mutable
  /\ last.op = "diff"
  /\ last.err = ""
  /\ Len(last.patches) > 0
  /\ Version(last.pre) # <<0, 0, 0, 0>>

\* C4: on a view created with mutable=false every encode, set, bulkSet, patch
\* and applyPatch fails with an immutable-view error and leaves every byte
\* of the segment unchanged, whatever the segment's size.
C4_ImmutableRejects ==
  (~view.options.mutable /\ last.op \in MutatingOps) =>
    /\ last.err \in {"Immutable", "ImmutableSizeMismatch"}
    /\ sab = last.pre

\* The operations the buffer-too-small rule is about.
SizeCheckedOps == MutatingOps \cup ReadOnlyOps \cup {"newViewSync"}

\* The last call was one of those operations on a segment shorter than the schema.
OnTooSmall == last.op \in SizeCheckedOps /\ BufferTooSmall(view, last.pre)

\* The last call left the segment, the handles and the registry untouched,
\* and its error does not depend on the segment's bytes.
TouchedNothing ==
  /\ sab = last.pre
  /\ Again(view, [i \in 1..Len(last.pre) |-> 255]).err = last.err
  /\ last.op = "newViewSync" =>
       /\ handles[last.handle] = NoHandle
       /\ \A k \in 1..Len(registry) : registry[k] # last.handle
       /\ \A h \in 1..MaxHandles : ~handles[h].scheduled

\* C5 as stated: every View operation, diff, applyPatch and the ViewSync
\* constructor, given a segment shorter than schema.byteSize, fails with a
\* buffer-too-small error before any byte is read or written, and the
\* constructor registers no handle and schedules no poll.
C5_TooSmallAlways ==
  OnTooSmall => last.err = "BufferTooSmall" /\ TouchedNothing

\* C5, amended: on a segment shorter than schema.byteSize every one of those
\* operations fails before any byte is read or written, and the constructor
\* registers no handle and schedules no poll; the error is buffer-too-small,
\* except that set, bulkSet, patch and applyPatch on a view created with
\* mutable=false fail with the immutable-view error.
C5_TooSmallFails ==
  OnTooSmall =>
    /\ last.err = IF ~view.options.mutable /\ last.op \in MutableFirstOps
                  THEN "Immutable" ELSE "BufferTooSmall"
    /\ TouchedNothing

\* A set on an immutable view with a segment one byte short, as the second
\* or a later call on it, no handle having been registered.
C5_Witness ==
  /\ OnTooSmall
  /\ last.op = "set"
  /\ ~view.options.mutable
  /\ last.err = "Immutable"
  /\ steps >= 2
  /\ registry = <<>>

\* C6: a set, bulkSet or encode that fails leaves every byte of the segment,
\* the version counter included, as it was before the call, also when the
\* invalid path of a bulkSet comes after valid ones.
C6_FailureLeavesBytes ==
  (/\ last.op \in {"set", "bulkSet", "encode"}
   /\ last.err \in {"InvalidPath", "MissingValue", "UndefinedValues"}) => sab = last.pre

\* C7: after a successful set(p, x) on a leaf path p of the index,
\* decodePartial(p) returns x and decodePartial of every other leaf path
\* returns what it returned before the call.
C7_SetThenDecodePartial ==
  (last.op = "set" /\ last.err = "" /\ last.path \in LeafPaths(view.schema)) =>
    /\ LET now == ViewDecodePartial(view, last.path, sab)
       IN now.err = "" /\ now.ret = last.value
    /\ \A q \in LeafPaths(view.schema) \ {last.path} :
         ViewDecodePartial(view, q, sab).ret = ViewDecodePartial(view, q, last.pre).ret

RECURSIVE ApplyAll(_, _, _, _)
\* applyPatch for each patch in order, from the k-th on
ApplyAll(v, buf, patches, k) ==
  IF k > Len(patches) THEN Outcome("", buf, JsUndefined)
  ELSE LET r == ApplyPatch(v, buf, patches[k])
       IN IF r.err # "" THEN r ELSE ApplyAll(v, r.sab, patches, k + 1)

\* C8: with old encoded into the segment, applying every patch of
\* diff(view, seg, new) in order yields a segment that decodes to new, for
\* old and new of the sample's shape.
C8_DiffPatchConsistent ==
  EncodedSameShape =>
    \A new \in {sample, Other(sample)} :
      LET d == Diff(view, sab, new)
          done == ApplyAll(view, sab, d.patches, 1)
          back == ViewDecode(view, done.sab)
      IN d.err = "" /\ done.err = "" /\ back.err = "" /\ back.ret = new

\* C9: the setter of every template entry writes only bytes of
\* [offset, offset + size) and its closures use the entry's own offset.
C9_ClosuresUseOwnOffset ==
  \A k \in 1..Len(view.schema.encodingTemplate) :
    LET entry == view.schema.encodingTemplate[k]
        room == NewBuffer(view.schema.byteSize + Slack, <<0, 0, 0, 0>>)
        out == Setter(view.schema, entry, room, getValueByPath(sample, entry.type))
    IN /\ ClosureOffset(view.schema, entry) = entry.offset
       /\ out.err = ""
       /\ \A off \in 0..(Len(room) - 1) :
            ByteAt(out.sab, off) # ByteAt(room, off) =>
              off >= entry.offset /\ off < entry.offset + entry.size

\* The template entries of leaves, in the order inference made them.
LeafTemplates(schema) ==
  SelectSeq(schema.encodingTemplate, LAMBDA t : t.kind \notin {"Object", "Array"})

RECURSIVE DescriptorsFit(_, _)
\* byteOffset + byteSize <= byteSize of the schema, for desc and below
DescriptorsFit(desc, size) ==
  /\ desc.byteOffset + desc.byteSize <= size
  /\ \A i \in 1..Len(desc.cvals) : DescriptorsFit(desc.cvals[i], size)

\* C10: leaf offsets ascend from 8 in inference order with disjoint ranges
\* past the header, every descriptor of the tree ends within schema.byteSize,
\* and the schema of { num: 42, str: 'hello' } has byteSize 25.
C10_Layout ==
  LET schema == view.schema
      leaves == LeafTemplates(schema)
  IN /\ \A i \in 1..Len(leaves) : leaves[i].offset >= 8
     /\ \A i \in 1..Len(leaves) : \A j \in (i + 1)..Len(leaves) :
          leaves[i].offset + leaves[i].size <= leaves[j].offset
     /\ DescriptorsFit(schema.descriptorTree, schema.byteSize)
     /\ (sample.keys = <<Key("num"), Key("str")>>) => schema.byteSize = 25

\* ------------------------------------------------------------------------
\* Properties of ViewSync
\* ------------------------------------------------------------------------

\* The wrapper of the handle writes assignments to prop through to the segment.
TrapTracks(handle, prop) == ~handle.trap.given \/ Includes(handle.trap.paths, prop)

\* The polls of the handle decode prop.
Decodes(handle, prop) == handle.boundPaths = <<>> \/ Includes(handle.boundPaths, prop)

Live(handle) == handle.created /\ ~handle.destroyed

\* The last call was a poll of a live handle B that has a bound object and a
\* recording callback, and the call before it a successful assignment of a
\* defined value to a tracked property through the wrapper of another live
\* handle A.
PollAfterPeerAssign ==
  /\ last.op = "poll"
  /\ last.prev.op = "assign" /\ last.prev.err = ""
  /\ last.prev.handle # last.handle
  /\ last.prev.value.t # "Undefined"
  /\ Live(last.preHandles[last.prev.handle])
  /\ TrapTracks(last.preHandles[last.prev.handle], last.prev.path)
  /\ Live(last.preHandles[last.handle])
  /\ last.preHandles[last.handle].bound # JsNull
  /\ last.preHandles[last.handle].onUpdate = "log"
  /\ Decodes(last.preHandles[last.handle], last.prev.path)

\* C11: when handle A's wrapper has assigned a defined value to a tracked
\* property, the next poll of another live handle B on the segment sets that
\* property of B's bound object to the assigned value and invokes B's update
\* callback with data that holds it.
C11_PeerSeesAssignment ==
  PollAfterPeerAssign =>
    /\ last.err = ""
    /\ JsGet(handles[last.handle].bound, last.prev.path) = last.prev.value
    /\ \E i \in 1..Len(last.callbacks) :
         /\ last.callbacks[i].handle = last.handle
         /\ JsGet(last.callbacks[i].data, last.prev.path) = last.prev.value

\* C13: once destroy() has returned, from outside or from inside the
\* handle's own update callback, the handle is not in the registry and has no
\* scheduled poll, no poll of it runs again, and a second destroy() changes
\* nothing.
C13_DestroyedIsGone ==
  /\ \A h \in 1..MaxHandles :
       handles[h].destroyed => ~Includes(registry, h) /\ ~handles[h].scheduled
  /\ last.op = "poll" => ~last.preHandles[last.handle].destroyed
  /\ (last.op = "destroy" /\ last.preHandles[last.handle].destroyed) =>
       handles = last.preHandles /\ sab = last.pre /\ last.err = ""

\* The last call was an assignment of a defined value to a property the
\* wrapper tracks.
TrackedAssign ==
  /\ last.op = "assign"
  /\ last.value.t # "Undefined"
  /\ TrapTracks(last.preHandles[last.handle], last.path)

\* C14: an assignment of a defined value to a tracked property through the
\* wrapper is View.set of that property on the segment, with one version
\* increment, and then the update of the local object; when View.set fails
\* the assignment fails with its error and the local object is as before.
C14_WriteThrough ==
  TrackedAssign =>
    /\ sab = ViewSet(view, last.path, last.value, last.pre).sab
    /\ last.err = ViewSet(view, last.path, last.value, last.pre).err
    /\ IF last.err = ""
       THEN /\ Version(sab) = Version(AtomicsAdd(last.pre))
            /\ JsGet(handles[last.handle].bound, last.path) = last.value
       ELSE /\ handles[last.handle].bound = last.preHandles[last.handle].bound
            /\ sab = last.pre

\* A tracked assignment went through: the segment and the local object changed.
C14_Witness ==
  /\ TrackedAssign
  /\ last.err = ""
  /\ sab # last.pre
  /\ handles[last.handle].bound # last.preHandles[last.handle].bound

\* The last call was an assignment of undefined through a wrapper.
UndefinedAssign == last.op = "assign" /\ last.value.t = "Undefined"

C16_UntrackedIsLocal ==
  (/\ last.op = "assign"
   /\ last.value.t # "Undefined"
   /\ last.preHandles[last.handle].boundPaths # <<>>
   /\ ~Includes(last.preHandles[last.handle].boundPaths, last.path)) =>
    /\ sab = last.pre
    /\ last.err = ""
    /\ handles[last.handle].bound = JsPut(last.preHandles[last.handle].bound, last.path, last.value)

\* C17: after a syncToSab() that succeeded, View.decode of the segment is the
\* bound object as it is then, changes made in place included; without a
\* bound object syncToSab() fails and leaves the segment unchanged.
C17_SyncToSabRoundTrip ==
  last.op = "syncToSab" =>
    IF last.preHandles[last.handle].bound = JsNull
    THEN last.err = "NoBoundVariable" /\ sab = last.pre
    ELSE last.err = "" =>
           /\ ViewDecode(view, sab).err = ""
           /\ ViewDecode(view, sab).ret = last.preHandles[last.handle].bound

\* The callbacks the last call invoked on handle h.
CallbacksOf(h) == SelectSeq(last.callbacks, LAMBDA c : c.handle = h)

\* C18: a poll of a live handle with an update callback that finds a version
\* counter other than its lastVersion invokes the callback exactly once, with
\* the data decoded from the segment, and sets lastVersion to the version it
\* read.
C18_CallbackOnce ==
  (/\ last.op = "poll"
   /\ Live(last.preHandles[last.handle])
   /\ last.preHandles[last.handle].onUpdate # "none") =>
    /\ Len(CallbacksOf(last.handle)) = 1
    /\ CallbacksOf(last.handle)[1].data =
         SyncData(view, last.preHandles[last.handle], last.pre).ret
    /\ handles[last.handle].lastVersion = Version(last.pre)

\* The descriptor types of slots that hold a concrete value.
ConcreteTypes == {"Number", "String", "Boolean", "BigInt", "Date", "TypedArray", "Array"}

\* C19: applyPatch with op 'remove' on a path whose slot has a concrete type
\* fails and leaves the bytes of the segment, the version counter included,
\* unchanged.
C19_RemoveRejected ==
  (/\ last.op = "applyPatch"
   /\ last.entries[1].op = "remove"
   /\ MapHas(view.schema.flatIndex, last.path)
   /\ MapGet(view.schema.flatIndex, last.path).type \in ConcreteTypes) =>
    /\ last.err # ""
    /\ sab = last.pre

\* The paths of the index that hold a string.
StringPaths(schema) ==
  {schema.flatIndex[i].path : i \in {k \in 1..Len(schema.flatIndex) :
                                       schema.flatIndex[k].e.type = "String"}}

\* The bytes a string slot holds besides its length prefix.
Capacity(schema, path) == getDescriptor(schema, path).byteSize - 4

\* What the last call, a set or an encode, was to write at path.
WrittenAt(path) ==
  IF last.op = "set" THEN (IF last.path = path THEN last.value ELSE JsUndefined)
  ELSE getValueByPath(last.value, path)

\* The last call was a set or encode of a string longer than the slot at path.
OverCapacityWrite(path) ==
  /\ last.op \in {"set", "encode"}
  /\ path \in StringPaths(view.schema)
  /\ WrittenAt(path).t = "String"
  /\ Len(WrittenAt(path).s) > Capacity(view.schema, path)

\* The slot of path holds the same bytes, and decodes to the same value, as
\* before the last call.
SlotUnchanged(path) ==
  LET offset == MapGet(view.schema.flatIndex, path).offset
      size == getDescriptor(view.schema, path).byteSize
  IN /\ \A i \in 1..size : offset + i <= Len(sab) => sab[offset + i] = last.pre[offset + i]
     /\ ViewDecodePartial(view, path, sab).ret = ViewDecodePartial(view, path, last.pre).ret

\* C20: a set or encode of a string longer than the capacity of its slot
\* fails, or else the slot then holds the string cut to the capacity; in
\* either case the bytes and the decoded value of every other leaf field are
\* as before.
C20_OverCapacityString ==
  \A path \in StringPaths(view.schema) :
    OverCapacityWrite(path) =>
      /\ \/ last.err # ""
         \/ ViewDecodePartial(view, path, sab).ret =
              JsString(SubSeq(WrittenAt(path).s, 1, Capacity(view.schema, path)))
      /\ \A q \in LeafPaths(view.schema) \ StringPaths(view.schema) : SlotUnchanged(q)

\* ------------------------------------------------------------------------
\* Polls that keep running
\* ------------------------------------------------------------------------

\* Two handles were constructed without bound paths on a segment encoded
\* once, each has bound a copy of the sample without paths, and the second
\* has a recording callback.
LiveInit ==
  \E data \in SyncSamples, version \in {<<1, 0, 0, 0>>}, extra \in {0, Slack} :
    \E r \in {Constructed(data, version, extra, <<>>, <<>>)} :
      /\ r.err = ""
      /\ sample = data
      /\ view = NewView(data, TRUE)
      /\ sab = r.sab
      /\ handles = [BindIn(BindIn(r, 1, data, FALSE, <<>>), 2, data, FALSE, <<>>).handles
                      EXCEPT ![2].onUpdate = "log"]
      /\ registry = r.registry
      /\ last = Done([Call("newViewSync", <<>>, JsUndefined, <<>>) EXCEPT !.handle = 2],
                     Outcome("", r.sab, JsUndefined), r.sab)
      /\ steps = 0
      /\ lru = NoCache
      /\ used = <<>>
      /\ rw = NoRace

LiveNext ==
  \/ Assign
  \/ SyncToSab
  \/ Destroy
  \/ SyncPoll

\* The timer of a scheduled poll fires: a poll that is pending and would see
\* a new version is eventually run.
LiveSpec == LiveInit /\ [][LiveNext]_vars /\ \A h \in 1..MaxHandles : WF_vars(PollOf(h))

\* Every live handle has seen the version counter the segment holds.
Quiesced == \A h \in 1..MaxHandles : Live(handles[h]) => handles[h].lastVersion = Version(sab)

RECURSIVE TreeLeaves(_, _)
RECURSIVE LeavesOfChildren(_, _, _)
RECURSIVE LeavesOfItems(_, _, _)
TreeLeaves(desc, path) ==
  CASE desc.type = "Object" -> LeavesOfChildren(desc, path, 1)
    [] desc.type = "Array" -> LeavesOfItems(desc, path, 0)
    [] OTHER -> <<path>>

LeavesOfChildren(desc, path, k) ==
  IF k > Len(desc.ckeys) THEN <<>>
  ELSE TreeLeaves(desc.cvals[k], ChildPath(path, desc.ckeys[k]))
         \o LeavesOfChildren(desc, path, k + 1)

LeavesOfItems(desc, path, i) ==
  IF i >= desc.length THEN <<>>
  ELSE TreeLeaves(desc.cvals[1], IndexPath(path, i)) \o LeavesOfItems(desc, path, i + 1)

\* The position of path among the leaves of the schema, 0 if it is none.
PositionOf(schema, path) ==
  LET leaves == TreeLeaves(schema.descriptorTree, <<>>)
  IN IF \E i \in 1..Len(leaves) : leaves[i] = path
     THEN CHOOSE i \in 1..Len(leaves) : leaves[i] = path
     ELSE 0

\* The value the segment held at path before the last call, and the value
\* the data of the last call has there.
OldAt(path) == ViewDecodePartial(view, path, last.pre).ret
NewAt(path) == getValueByPath(last.value, path)

\* The last call was diff(view, sab, newData) on a segment of sufficient size.
Diffed == last.op = "diff" /\ ~BufferTooSmall(view, last.pre)

\* The paths of the patches the last call returned, in order.
PatchedPaths == [i \in 1..Len(last.patches) |-> last.patches[i].path]

\* Every patch is a replace of a leaf carrying the new value at its path, and
\* the patches follow the walk order with no path twice.
WellFormedPatches ==
  /\ \A i \in 1..Len(last.patches) :
       /\ last.patches[i].op = "replace"
       /\ PositionOf(view.schema, last.patches[i].path) > 0
       /\ last.patches[i].value = NewAt(last.patches[i].path)
  /\ \A i, j \in 1..Len(last.patches) :
       i < j => PositionOf(view.schema, last.patches[i].path)
                  < PositionOf(view.schema, last.patches[j].path)

\* C21: diff returns normally, its patches are replace patches of leaves with
\* the new values in walk order, a leaf has a patch exactly when the value
\* the segment held there differs from the new one, and for the sample
\* { num: 42, str: 'hello' } and new data { num: 100, str: 'world' } the
\* result is [replace num 100, replace str 'world'].
C21_DiffPatches ==
  Diffed =>
    /\ last.err = ""
    /\ WellFormedPatches
    /\ \A path \in LeafPaths(view.schema) :
         (\E i \in 1..Len(last.patches) : last.patches[i].path = path)
           <=> OldAt(path) # NewAt(path)
    /\ (/\ sample = JsObject(<<Key("num"), Key("str")>>, <<JsNumber(42), JsString(Hello)>>)
        /\ last.value = JsObject(<<Key("num"), Key("str")>>, <<JsNumber(100), JsString(World)>>))
         => last.patches = <<Patch("replace", Key("num"), JsNumber(100)),
                             Patch("replace", Key("str"), JsString(World))>>

\* ------------------------------------------------------------------------
\* Properties of the poll task
\* ------------------------------------------------------------------------

\* The last step was an execution of a handle's poll task.
Polled == last.op = "poll"

\* C22: after every execution of the poll task of a handle that is not
\* destroyed, whatever the check met, the handle's next poll is scheduled.
C22_PollReschedules ==
  (Polled /\ ~handles[last.handle].destroyed) => handles[last.handle].scheduled

\* C23: a step of a handle's poll task, the nudges of its siblings included,
\* leaves the segment as it was: the version counter and every other byte.
C23_PollReadsOnly == Polled => sab = last.pre

\* Handle g was behind the segment when the last step began.
Stale(g) == last.preHandles[g].lastVersion # Version(last.pre)

\* The bound object of handle g holds every entry of data.
Received(g, data) ==
  \A i \in 1..Len(data.keys) : JsGet(handles[g].bound, data.keys[i]) = data.vals[i]

\* C24: when a poll step of a handle has observed a version change, every
\* other live handle registered on the segment has by the end of the step a
\* lastVersion equal to the segment's version and, if it was behind, has had
\* its callback invoked once and its bound object merged with the decoded
\* data; a destroyed handle is left as it was and its callback is not
\* invoked.
C24_FanOut ==
  Polled =>
    \A g \in (1..MaxHandles) \ {last.handle} :
      /\ Live(last.preHandles[g]) =>
           /\ handles[g].lastVersion = Version(sab)
           /\ (Stale(g) /\ last.preHandles[g].onUpdate # "none") => Len(CallbacksOf(g)) = 1
           /\ (Stale(g) /\ last.preHandles[g].bound # JsNull) =>
                Received(g, SyncData(view, last.preHandles[g], sab).ret)
      /\ last.preHandles[g].destroyed =>
           /\ handles[g] = last.preHandles[g]
           /\ CallbacksOf(g) = <<>>

\* C25: every patch diff returns is for a path at which the value the
\* segment held differs from the new value; in particular diffing against
\* data equal to what the segment holds returns no patch.
C25_DiffOnlyChanges ==
  (Diffed /\ last.err = "") =>
    \A i \in 1..Len(last.patches) :
      OldAt(last.patches[i].path) # NewAt(last.patches[i].path)

\* The last step was a poll of a live handle that decodes only its bound
\* paths and has a bound object.
PolledBoundPaths ==
  /\ Polled
  /\ Live(last.preHandles[last.handle])
  /\ Len(last.preHandles[last.handle].boundPaths) > 0
  /\ last.preHandles[last.handle].bound # JsNull

\* C26: after a poll of a handle with bound paths that observed a version
\* change, the handle's bound object holds at each bound path the value
\* decoded from the segment at that path.
C26_BoundPathsMerged ==
  PolledBoundPaths =>
    \A i \in 1..Len(last.preHandles[last.handle].boundPaths) :
      LET path == last.preHandles[last.handle].boundPaths[i]
      IN getValueByPath(handles[last.handle].bound, path)
           = ViewDecodePartial(view, path, last.pre).ret

\* ------------------------------------------------------------------------
\* An LRUCache under get and set
\* ------------------------------------------------------------------------

\* Calls followed on the cache.
MaxCacheSteps == 5

\* Largest maxSize a cache is created with.
MaxCacheSize == 3

CacheKeys == {"a", "b", "c", "d"}

\* Values stored: 0 is falsy, 1 is not.
CacheValues == {JsNumber(0), JsNumber(1)}

CacheInit ==
  \E maxSize \in 1..MaxCacheSize :
    /\ sample = JsObject(<<Key("count")>>, <<JsNumber(0)>>)
    /\ view = NewView(sample, TRUE)
    /\ sab = NewBuffer(view.byteSize, <<0, 0, 0, 0>>)
    /\ handles = [h \in 1..MaxHandles |-> NoHandle]
    /\ registry = <<>>
    /\ last = Done(Call("new", <<>>, JsUndefined, <<>>), Outcome("", sab, JsUndefined), sab)
    /\ steps = 0
    /\ lru = NewCache(maxSize)
    /\ used = <<>>
    /\ rw = NoRace

\* The keys that remain in the cache c, in the order of their last use, after
\* a use of key.
UsedAfter(c, key) ==
  SelectSeq(SelectSeq(used, LAMBDA k : k # key) \o <<key>>, LAMBDA k : MapHas(c.cache, k))

CachePerform(call, c, ret, touched) ==
  /\ steps < MaxCacheSteps
  /\ steps' = steps + 1
  /\ lru' = c
  /\ used' = IF touched THEN UsedAfter(c, call.path)
             ELSE SelectSeq(used, LAMBDA k : MapHas(c.cache, k))
  /\ last' = Done(call, Outcome("", sab, ret), sab)
  /\ UNCHANGED <<sample, view, sab, handles, registry, rw>>

\* cache.get(key); a get that finds the key is a use of it.
CacheGet ==
  \E key \in CacheKeys :
    \E r \in {CacheGetIn(lru, key)} :
      CachePerform(Call("cache.get", key, JsUndefined, <<>>), r.lru, r.ret,
                   MapHas(lru.cache, key))

\* cache.set(key, value)
CacheSet ==
  \E key \in CacheKeys, value \in CacheValues :
    CachePerform(Call("cache.set", key, value, <<>>), CacheSetIn(lru, key, value),
                 JsUndefined, TRUE)

CacheNext == CacheGet \/ CacheSet

CacheSpec == CacheInit /\ [][CacheNext]_vars

\* C27: a set on a full cache removes no entry but the least recently used
\* one, where gets that find a key and sets of a key count as uses; a get
\* removes none.
C27_LeastRecentEvicted ==
  [][\A key \in CacheKeys :
       (MapHas(lru.cache, key) /\ ~MapHas(lru'.cache, key)) =>
         /\ last'.op = "cache.set"
         /\ Len(lru.cache) >= lru.maxSize
         /\ key = used[1]]_vars

\* ------------------------------------------------------------------------
\* One writer and one reader on a segment
\* ------------------------------------------------------------------------

\* Calls the writer makes.
MaxWriterCalls == 2

\* The samples with a field that set can write.
WriterSamples == {d \in Samples : d.keys[1] \in {Key("count"), Key("Number"), Key("String")}}

\* The bytes of the segment behind the version counter.
FieldBytes(buf) == SubSeq(buf, 5, Len(buf))

RaceInit ==
  \E data \in WriterSamples, extra \in {0, Slack} :
    /\ sample = data
    /\ view = NewView(data, TRUE)
    /\ sab = NewBuffer(view.byteSize + extra, <<0, 0, 0, 0>>)
    /\ handles = [h \in 1..MaxHandles |-> NoHandle]
    /\ registry = <<>>
    /\ last = Done(Call("new", <<>>, JsUndefined, <<>>), Outcome("", sab, JsUndefined), sab)
    /\ steps = 0
    /\ lru = NoCache
    /\ used = <<>>
    /\ rw = NoRace

\* The calls the writer chooses from.
WriterCalls ==
  {Call("set", path, value, <<>>) :
     path \in {view.schema.flatIndex[1].path}, value \in ValuesFor(sample, view.schema.flatIndex[1].path)}
  \cup {Call("bulkSet", <<>>, JsUndefined, entries) : entries \in BulkInputs(sample, view.schema)}
  \cup {Call("encode", <<>>, data, <<>>) : data \in {sample, Other(sample)}}

\* The writer enters set, bulkSet or encode; the call before has returned.
WriterCall ==
  \E call \in WriterCalls :
    \E target \in {FieldBytes(AfterWrites(view, call, sab))},
       stores \in {Stores(view, call, sab)},
       out \in {WriteOutcome(view, call, sab)} :
      /\ steps < MaxWriterCalls
      /\ rw.pending = <<>>
      /\ steps' = steps + 1
      /\ last' = Done(call, out, sab)
      /\ rw' = [rw EXCEPT !.pending = stores,
                          !.target = target,
                          !.counted = FieldBytes(sab) = target,
                          !.landed = IF FieldBytes(sab) = target THEN @ + 1 ELSE @]
      /\ UNCHANGED <<sample, view, sab, handles, registry, lru, used>>

\* The writer executes the next store of its call.
WriterStore ==
  /\ rw.pending # <<>>
  /\ sab' = Head(rw.pending)
  /\ rw' = [rw EXCEPT !.pending = Tail(@),
                      !.counted = @ \/ FieldBytes(sab') = rw.target,
                      !.landed = IF ~rw.counted /\ FieldBytes(sab') = rw.target THEN @ + 1 ELSE @]
  /\ UNCHANGED <<sample, view, handles, registry, last, steps, lru, used>>

\* The reader loads the version counter.
ReaderLoad ==
  /\ rw.loaded = -1 \/ rw.decoded
  /\ rw' = [rw EXCEPT !.loaded = VersionNumber(sab) - rw.base, !.decoded = FALSE]
  /\ UNCHANGED <<sample, view, sab, handles, registry, last, steps, lru, used>>

\* The reader, having loaded the version, decodes the segment.
ReaderDecode ==
  /\ rw.loaded >= 0 /\ ~rw.decoded
  /\ rw' = [rw EXCEPT !.decoded = TRUE, !.floor = rw.landed]
  /\ UNCHANGED <<sample, view, sab, handles, registry, last, steps, lru, used>>

RaceNext == WriterCall \/ WriterStore \/ ReaderLoad \/ ReaderDecode

RaceSpec == RaceInit /\ [][RaceNext]_vars

\* C28: the version counter never counts more calls than have all their
\* field bytes in the segment, and a reader that loaded version n and then
\* decoded found the field bytes of at least n calls in the segment.
C28_CountAfterWrite ==
  /\ VersionNumber(sab) - rw.base <= rw.landed
  /\ rw.decoded => rw.loaded <= rw.floor

\* The reader loaded a version of at least 1 and decoded while a later call
\* of the writer had written its fields and not yet incremented the counter.
C28_Witness ==
  /\ rw.decoded /\ rw.loaded >= 1
  /\ Len(rw.pending) = 1
  /\ FieldBytes(sab) # FieldBytes(last.pre)

\* ------------------------------------------------------------------------
\* The two decoders
\* ------------------------------------------------------------------------

\* C29: a decodePartial(p, sab) that returns, for a path p of the index on a
\* segment that decode(sab) decodes, returns the value found at p in the
\* object decode(sab) returns.
C29_DecodersAgree ==
  (/\ last.op = "decodePartial" /\ last.err = ""
   /\ MapHas(view.schema.flatIndex, last.path)
   /\ ViewDecode(view, last.pre).err = "") =>
    last.ret = getValueByPath(ViewDecode(view, last.pre).ret, last.path)

\* ------------------------------------------------------------------------
\* A handle bound after its construction
\* ------------------------------------------------------------------------

\* The segment has been written since the handles were constructed on it.
WrittenSince == Version(sab) # <<1, 0, 0, 0>>

\* The last step invoked the update callback of handle 2, which got its
\* bound object and its callback after its construction.
CaughtUp == \E i \in 1..Len(last.callbacks) : last.callbacks[i].handle = 2

\* C30: a handle constructed on a segment whose version counter is 1 and
\* given its bound object and its callback afterwards has its callback
\* invoked by a poll, unless the segment is written first.
C30_LateBindCatchesUp == <>(WrittenSince \/ CaughtUp)

====
